---- MODULE Spec2Model ----
(***************************************************************************)
(* Model of the document chunker of scripts/preprocessing/preprocess_local *)
(* (class DocumentChunker) and of the paragraph reconstruction helper of   *)
(* scripts/utilities/extract_paragraphs.                                   *)
(*                                                                         *)
(* A text is a sequence of one-character strings, so that len(), slicing,  *)
(* joining and the regular expressions of the source are computed on the   *)
(* characters, as the source computes them.                                *)
(***************************************************************************)
EXTENDS Integers, Sequences, FiniteSets, TLC

\* ------------------------------------------------------------------------
\* Characters and the regular-expression primitives the source relies on
\* ------------------------------------------------------------------------
UpperSeq == <<"A", "B", "C", "D", "E", "F", "G", "H", "I", "J", "K", "L", "M", "N", "O", "P", "Q", "R", "S", "T", "U", "V", "W", "X", "Y", "Z">>
LowerSeq == <<"a", "b", "c", "d", "e", "f", "g", "h", "i", "j", "k", "l", "m", "n", "o", "p", "q", "r", "s", "t", "u", "v", "w", "x", "y", "z">>
DigitSet == {"0", "1", "2", "3", "4", "5", "6", "7", "8", "9"}
UpperSet == {UpperSeq[i] : i \in 1..26}
LowerSet == {LowerSeq[i] : i \in 1..26}

IsDigit(c) == c \in DigitSet
IsUpper(c) == c \in UpperSet
IsAlnum(c) == c \in DigitSet \cup UpperSet \cup LowerSet
IsWordChar(c) == IsAlnum(c) \/ c = "_"
SpaceSet == {" ", "\n", "\t"}
NewlineSet == {"\n"}
IsSpace(c) == c \in SpaceSet
IsRomanOrDigit(c) == c \in DigitSet \cup {"I", "V", "X", "i", "v", "x"}

\* str.lower() on one character
LowerChar(c) == IF c \in UpperSet THEN LowerSeq[CHOOSE i \in 1..26 : UpperSeq[i] = c] ELSE c
\* str.lower()
Lower(text) == [i \in 1..Len(text) |-> LowerChar(text[i])]

\* the words the patterns of the source spell out
W_Article == <<"A", "r", "t", "i", "c", "l", "e">>
W_paragraph == <<"p", "a", "r", "a", "g", "r", "a", "p", "h">>
W_subparagraph == <<"s", "u", "b", "p", "a", "r", "a", "g", "r", "a", "p", "h">>
W_point == <<"p", "o", "i", "n", "t">>
W_Section == <<"S", "e", "c", "t", "i", "o", "n">>
W_Chapter == <<"C", "h", "a", "p", "t", "e", "r">>
W_Luku == <<"L", "u", "k", "u">>
W_Part == <<"P", "a", "r", "t">>
W_Annex == <<"A", "n", "n", "e", "x">>
W_however == <<"h", "o", "w", "e", "v", "e", "r">>
W_moreover == <<"m", "o", "r", "e", "o", "v", "e", "r">>
W_furthermore == <<"f", "u", "r", "t", "h", "e", "r", "m", "o", "r", "e">>
W_in_addition == <<"i", "n", " ", "a", "d", "d", "i", "t", "i", "o", "n">>
W_additionally == <<"a", "d", "d", "i", "t", "i", "o", "n", "a", "l", "l", "y">>
W_therefore == <<"t", "h", "e", "r", "e", "f", "o", "r", "e">>
W_thus == <<"t", "h", "u", "s">>
W_where == <<"w", "h", "e", "r", "e">>
W_when == <<"w", "h", "e", "n">>
W_if == <<"i", "f">>
W_unless == <<"u", "n", "l", "e", "s", "s">>
W_provided_that == <<"p", "r", "o", "v", "i", "d", "e", "d", " ", "t", "h", "a", "t">>
W_such == <<"s", "u", "c", "h">>
W_those == <<"t", "h", "o", "s", "e">>
W_these == <<"t", "h", "e", "s", "e">>
W_that == <<"t", "h", "a", "t">>
W_which == <<"w", "h", "i", "c", "h">>

\* the literal w occurs in text at position i (case-sensitive)
LitAt(text, i, w) ==
    /\ i >= 1
    /\ i + Len(w) - 1 <= Len(text)
    /\ \A k \in 1..Len(w) : text[i + k - 1] = w[k]

\* the literal w occurs in text at position i (re.IGNORECASE)
ILitAt(text, i, w) ==
    /\ i >= 1
    /\ i + Len(w) - 1 <= Len(text)
    /\ \A k \in 1..Len(w) : LowerChar(text[i + k - 1]) = LowerChar(w[k])

\* first position at or after i that is past the end or not in the class:
\* the end of a greedy run  <class>*  that starts at i
RunEnd(text, i, class) ==
    CHOOSE j \in i..(Len(text) + 1) :
        /\ \A k \in i..(j - 1) : text[k] \in class
        /\ (j = Len(text) + 1 \/ text[j] \notin class)

\* \s+\d+ matched at position i: the position after the match, 0 if no match
AfterSpaceDigits(text, i) ==
    LET d == RunEnd(text, i, SpaceSet)
        e == RunEnd(text, d, DigitSet)
    IN  IF i <= Len(text) /\ d > i /\ e > d THEN e ELSE 0

\* \b at the gap before position i (1..Len+1)
WordBoundary(text, i) ==
    LET before == i > 1 /\ IsWordChar(text[i - 1])
        after == i <= Len(text) /\ IsWordChar(text[i])
    IN  before # after

\* str.rstrip() / str.strip()
RStrip(text) ==
    LET keep == {n \in 0..Len(text) : n = 0 \/ ~IsSpace(text[n])}
        n == CHOOSE m \in keep : \A k \in keep : k <= m
    IN  SubSeq(text, 1, n)

LStrip(text) == SubSeq(text, RunEnd(text, 1, SpaceSet), Len(text))

Strip(text) == LStrip(RStrip(text))

RECURSIVE JoinWith(_, _)
\* sep.join(parts)
JoinWith(sep, parts) ==
    IF parts = <<>> THEN <<>>
    ELSE IF Len(parts) = 1 THEN parts[1]
    ELSE parts[1] \o sep \o JoinWith(sep, Tail(parts))

NL == <<"\n">>
SP == <<" ">>

\* Optional[str] None; every captured number is a non-empty text, and the
\* source tests the captured numbers for truthiness only
None == <<>>

\* ------------------------------------------------------------------------
\* DocumentChunker: the pure helpers
\* ------------------------------------------------------------------------

\* len(self.encoder.encode(text)): the cl100k_base encoder is a library the
\* repository calls; it is modelled by the ratio the source itself states
\* ("~4 chars per token"), rounded up so that a non-empty text has a token
CharsPerToken == 4
EncodeLen(text) == (Len(text) + CharsPerToken - 1) \div CharsPerToken

LongTextLimit == 50000

\* the special tokens of cl100k_base; encode, called as the source calls it,
\* raises ValueError for a text that contains one of them
SpecialTokens ==
    { <<"<", "|", "e", "n", "d", "o", "f", "t", "e", "x", "t", "|", ">">>,
      <<"<", "|", "f", "i", "m", "_", "p", "r", "e", "f", "i", "x", "|", ">">>,
      <<"<", "|", "f", "i", "m", "_", "m", "i", "d", "d", "l", "e", "|", ">">>,
      <<"<", "|", "f", "i", "m", "_", "s", "u", "f", "f", "i", "x", "|", ">">>,
      <<"<", "|", "e", "n", "d", "o", "f", "p", "r", "o", "m", "p", "t", "|", ">">> }

\* self.encoder.encode(text) raises
EncodeRaises(text) ==
    \E i \in 1..Len(text) : text[i] = "<" /\ \E w \in SpecialTokens : LitAt(text, i, w)

\* count_tokens with the encoder called for every text and its count returned
count_tokens_exact_only(text) == EncodeLen(text)

\* count_tokens: the estimate for a long text, the encoder's count, and the
\* estimate again in the except branch
count_tokens(text) ==
    IF Len(text) > LongTextLimit
    THEN Len(text) \div 4
    ELSE IF EncodeRaises(text)
         THEN Len(text) \div 4
         ELSE EncodeLen(text)

\* re.search(r'[\(\[]?[a-z0-9]+[\)\]]?\.?$', text, re.IGNORECASE)
ListItemEnd(t) ==
    \E e \in 1..Len(t) :
        /\ IsAlnum(t[e])
        /\ SubSeq(t, e + 1, Len(t)) \in
              {<<>>, <<")">>, <<"]">>, <<".">>, <<")", ".">>, <<"]", ".">>}

\* re.search(r'\d{4}/\d+[A-Z]*$', text)
CitationEnd(t) ==
    \E s \in 1..Len(t) :
        /\ s + 5 <= Len(t)
        /\ \A k \in s..(s + 3) : IsDigit(t[k])
        /\ t[s + 4] = "/"
        /\ LET d == RunEnd(t, s + 5, DigitSet)
           IN  d > s + 5 /\ RunEnd(t, d, UpperSet) = Len(t) + 1

\* re.search(r'(Article|paragraph|point)\s+\d+[a-z]?$', text, re.IGNORECASE)
ReferenceEnd(t) ==
    \E i \in 1..Len(t) : \E w \in {W_Article, W_paragraph, W_point} :
        /\ ILitAt(t, i, w)
        /\ LET e == AfterSpaceDigits(t, i + Len(w))
           IN  /\ e # 0
               /\ \/ e = Len(t) + 1
                  \/ e = Len(t) /\ LowerChar(t[e]) \in LowerSet

\* ends_at_sentence_boundary
ends_at_sentence_boundary(text) ==
    IF text = <<>> THEN FALSE
    ELSE LET t == RStrip(text)
         IN  IF t[Len(t)] \in {".", "!", "?", ";"} THEN TRUE
             ELSE IF t[Len(t)] = ":" THEN TRUE
             ELSE IF ListItemEnd(t) THEN TRUE
             ELSE IF CitationEnd(t) THEN TRUE
             ELSE IF ReferenceEnd(t) THEN TRUE
             ELSE FALSE

\* re.search(rf'\barticle\s+{current_article}\b', next_para, re.IGNORECASE)
RefersToArticle(next_para, current_article) ==
    \E i \in 1..Len(next_para) :
        /\ WordBoundary(next_para, i)
        /\ ILitAt(next_para, i, W_Article)
        /\ LET s == i + Len(W_Article)
               d == RunEnd(next_para, s, SpaceSet)
           IN  /\ d > s
               /\ ILitAt(next_para, d, current_article)
               /\ WordBoundary(next_para, d + Len(current_article))

\* re.search(r'\b(paragraph|subparagraph|point)\s+\d+\b', next_para, re.IGNORECASE)
RefersToParagraph(next_para) ==
    \E i \in 1..Len(next_para) : \E w \in {W_paragraph, W_subparagraph, W_point} :
        /\ WordBoundary(next_para, i)
        /\ ILitAt(next_para, i, w)
        /\ LET e == AfterSpaceDigits(next_para, i + Len(w))
           IN  e # 0 /\ WordBoundary(next_para, e)

continuation_patterns ==
    {W_however, W_moreover, W_furthermore, W_in_addition, W_additionally,
     W_therefore, W_thus, W_where, W_when, W_if, W_unless, W_provided_that,
     W_such, W_those, W_these, W_that, W_which}

\* should_keep_together
should_keep_together(current_paras, next_para, current_article) ==
    IF current_paras = <<>> THEN FALSE
    ELSE IF ~ends_at_sentence_boundary(current_paras[Len(current_paras)]) THEN TRUE
    ELSE IF /\ current_article # None
            /\ \/ RefersToArticle(next_para, current_article)
               \/ RefersToParagraph(next_para)
         THEN TRUE
    ELSE LET next_para_lower == Strip(Lower(next_para))
         IN  \E w \in continuation_patterns : LitAt(next_para_lower, 1, w)

RECURSIVE OverlapLoop(_, _, _, _, _)
\* the loop of calculate_overlap over reversed(paragraphs); i is the index of
\* the paragraph the loop is at, 0 once the list is exhausted
OverlapLoop(paragraphs, i, overlap, tokens, target_tokens) ==
    IF i = 0 THEN overlap
    ELSE LET para == paragraphs[i]
             para_tokens == count_tokens(para)
         IN  IF ~ends_at_sentence_boundary(para)
             THEN OverlapLoop(paragraphs, i - 1, overlap, tokens, target_tokens)
             ELSE IF 2 * (tokens + para_tokens) > 3 * target_tokens /\ overlap # <<>>
             THEN overlap
             ELSE IF 10 * (tokens + para_tokens) >= 8 * target_tokens
             THEN <<para>> \o overlap
             ELSE OverlapLoop(paragraphs, i - 1, <<para>> \o overlap,
                              tokens + para_tokens, target_tokens)

\* calculate_overlap
calculate_overlap(paragraphs, target_tokens) ==
    IF paragraphs = <<>> \/ target_tokens <= 0 THEN <<>>
    ELSE OverlapLoop(paragraphs, Len(paragraphs), <<>>, 0, target_tokens)

\* first maximal run of digits of the text, <<>> if it has no digit
FirstDigitRun(text) ==
    IF \E i \in 1..Len(text) : IsDigit(text[i])
    THEN LET s == CHOOSE i \in 1..Len(text) :
                      IsDigit(text[i]) /\ \A k \in 1..(i - 1) : ~IsDigit(text[k])
         IN  SubSeq(text, s, RunEnd(text, s, DigitSet) - 1)
    ELSE <<>>

\* self.finnish_chapter_pattern.match: r'^(Chapter|Luku)\s+\d+', IGNORECASE
finnish_chapter_pattern(paragraph) ==
    \E w \in {W_Chapter, W_Luku} :
        ILitAt(paragraph, 1, w) /\ AfterSpaceDigits(paragraph, 1 + Len(w)) # 0

\* self.finnish_section_pattern.match: r'^(Section\s+\d+|^\d+\s*§)'
finnish_section_pattern(paragraph) ==
    \/ LitAt(paragraph, 1, W_Section) /\ AfterSpaceDigits(paragraph, 1 + Len(W_Section)) # 0
    \/ LET d == RunEnd(paragraph, 1, DigitSet)
           e == RunEnd(paragraph, d, SpaceSet)
       IN  d > 1 /\ e <= Len(paragraph) /\ paragraph[e] = "§"

\* self.article_pattern.match: the configured pattern, r'^Article\s+\d+'
article_pattern(paragraph) ==
    LitAt(paragraph, 1, W_Article) /\ AfterSpaceDigits(paragraph, 1 + Len(W_Article)) # 0

\* re.search(r'Article\s+(\d+)', paragraph).group(1), None without a match
ArticleNumberOf(paragraph) ==
    LET starts == {i \in 1..Len(paragraph) :
                      LitAt(paragraph, i, W_Article)
                      /\ AfterSpaceDigits(paragraph, i + Len(W_Article)) # 0}
    IN  IF starts = {} THEN None
        ELSE LET i == CHOOSE m \in starts : \A k \in starts : m <= k
                 d == RunEnd(paragraph, i + Len(W_Article), SpaceSet)
             IN  SubSeq(paragraph, d, AfterSpaceDigits(paragraph, i + Len(W_Article)) - 1)

\* self.recital_pattern.match: the configured pattern, r'^\(\d+\)'
recital_pattern(paragraph) ==
    /\ Len(paragraph) >= 3
    /\ paragraph[1] = "("
    /\ LET e == RunEnd(paragraph, 2, DigitSet)
       IN  e > 2 /\ e <= Len(paragraph) /\ paragraph[e] = ")"

\* re.search(r'\((\d+)\)', paragraph): "(" + group(1) + ")", None without a match
RecitalNumberOf(paragraph) ==
    LET starts == {i \in 1..Len(paragraph) :
                      /\ paragraph[i] = "("
                      /\ LET e == RunEnd(paragraph, i + 1, DigitSet)
                         IN  e > i + 1 /\ e <= Len(paragraph) /\ paragraph[e] = ")"}
    IN  IF starts = {} THEN None
        ELSE LET i == CHOOSE m \in starts : \A k \in starts : m <= k
             IN  SubSeq(paragraph, i, RunEnd(paragraph, i + 1, DigitSet))

\* self.framework_section_pattern.match:
\* r'^(Part|Section|Chapter|Annex)\s+[IVX\d]+', IGNORECASE
framework_section_pattern(paragraph) ==
    \E w \in {W_Part, W_Section, W_Chapter, W_Annex} :
        /\ ILitAt(paragraph, 1, w)
        /\ LET s == 1 + Len(w)
               d == RunEnd(paragraph, s, SpaceSet)
           IN  d > s /\ d <= Len(paragraph) /\ IsRomanOrDigit(paragraph[d])

\* self.section_pattern.match: the configured pattern, r'^Section\s+\d+'
section_pattern(paragraph) ==
    LitAt(paragraph, 1, W_Section) /\ AfterSpaceDigits(paragraph, 1 + Len(W_Section)) # 0

\* detect_boundary with the framework markers checked before every other rule
detect_boundary_framework_first(paragraph) ==
    IF framework_section_pattern(paragraph)
    THEN [type |-> "section", num |-> None, nums |-> <<>>]
    ELSE IF finnish_chapter_pattern(paragraph)
    THEN [type |-> "chapter", num |-> None, nums |-> <<>>]
    ELSE IF finnish_section_pattern(paragraph)
    THEN [type |-> "section",
          num |-> IF FirstDigitRun(paragraph) # <<>>
                  THEN FirstDigitRun(paragraph) \o <<" ", "§">> ELSE None,
          nums |-> <<>>]
    ELSE IF article_pattern(paragraph)
    THEN [type |-> "article", num |-> ArticleNumberOf(paragraph), nums |-> <<>>]
    ELSE IF recital_pattern(paragraph)
    THEN [type |-> "recital", num |-> None,
          nums |-> IF RecitalNumberOf(paragraph) # None
                   THEN <<RecitalNumberOf(paragraph)>> ELSE <<>>]
    ELSE IF section_pattern(paragraph)
    THEN [type |-> "section", num |-> None, nums |-> <<>>]
    ELSE [type |-> "paragraph", num |-> None, nums |-> <<>>]

\* detect_boundary: (chunk_type, article_number, paragraph_numbers)
detect_boundary(paragraph) ==
    IF finnish_chapter_pattern(paragraph)
    THEN [type |-> "chapter", num |-> None, nums |-> <<>>]
    ELSE IF finnish_section_pattern(paragraph)
    THEN [type |-> "section",
          num |-> IF FirstDigitRun(paragraph) # <<>>
                  THEN FirstDigitRun(paragraph) \o <<" ", "§">> ELSE None,
          nums |-> <<>>]
    ELSE IF article_pattern(paragraph)
    THEN [type |-> "article", num |-> ArticleNumberOf(paragraph), nums |-> <<>>]
    ELSE IF recital_pattern(paragraph)
    THEN [type |-> "recital", num |-> None,
          nums |-> IF RecitalNumberOf(paragraph) # None
                   THEN <<RecitalNumberOf(paragraph)>> ELSE <<>>]
    ELSE IF framework_section_pattern(paragraph)
    THEN [type |-> "section", num |-> None, nums |-> <<>>]
    ELSE IF section_pattern(paragraph)
    THEN [type |-> "section", num |-> None, nums |-> <<>>]
    ELSE [type |-> "paragraph", num |-> None, nums |-> <<>>]

\* one match of sentence_pattern starting at position i: the position after
\* the match, 0 if the pattern does not match at i
\*   (?<=[.!?])\s+(?=[A-Z]) | (?<=[.!?])[\n]+ | (?<=\d\))\s+(?=[A-Z]) | ;\s+(?=[A-Z])
SentenceSepEnd(text, i) ==
    LET afterStop == i > 1 /\ text[i - 1] \in {".", "!", "?"}
        afterItem == i > 2 /\ text[i - 1] = ")" /\ IsDigit(text[i - 2])
        ws == RunEnd(text, i, SpaceSet)
        nl == RunEnd(text, i, NewlineSet)
        ws2 == RunEnd(text, i + 1, SpaceSet)
    IN  IF afterStop /\ ws > i /\ ws <= Len(text) /\ IsUpper(text[ws]) THEN ws
        ELSE IF afterStop /\ nl > i THEN nl
        ELSE IF afterItem /\ ws > i /\ ws <= Len(text) /\ IsUpper(text[ws]) THEN ws
        ELSE IF text[i] = ";" /\ ws2 > i + 1 /\ ws2 <= Len(text) /\ IsUpper(text[ws2]) THEN ws2
        ELSE 0

RECURSIVE SentenceSplit(_, _, _, _)
\* sentence_pattern.split(text): i scans the text, start is where the piece
\* being collected begins
SentenceSplit(text, i, start, acc) ==
    IF i > Len(text) THEN Append(acc, SubSeq(text, start, Len(text)))
    ELSE IF SentenceSepEnd(text, i) # 0
    THEN SentenceSplit(text, SentenceSepEnd(text, i), SentenceSepEnd(text, i),
                       Append(acc, SubSeq(text, start, i - 1)))
    ELSE SentenceSplit(text, i + 1, start, acc)

RECURSIVE SentenceLoop(_, _, _, _, _, _)
\* the loop of split_at_sentences over the sentences, k the index it is at
SentenceLoop(sentences, k, chunks, current, current_tokens, max_tokens) ==
    IF k > Len(sentences)
    THEN IF current # <<>> THEN Append(chunks, JoinWith(SP, current)) ELSE chunks
    ELSE LET sentence == Strip(sentences[k])
             sent_tokens == count_tokens(sentence)
         IN  IF sentence = <<>>
             THEN SentenceLoop(sentences, k + 1, chunks, current, current_tokens, max_tokens)
             ELSE IF sent_tokens > max_tokens
             THEN SentenceLoop(sentences, k + 1,
                               Append(IF current # <<>>
                                      THEN Append(chunks, JoinWith(SP, current))
                                      ELSE chunks, sentence),
                               <<>>, 0, max_tokens)
             ELSE IF current # <<>> /\ current_tokens + sent_tokens > max_tokens
             THEN SentenceLoop(sentences, k + 1, Append(chunks, JoinWith(SP, current)),
                               <<sentence>>, sent_tokens, max_tokens)
             ELSE SentenceLoop(sentences, k + 1, chunks, Append(current, sentence),
                               current_tokens + sent_tokens, max_tokens)

\* split_at_sentences
split_at_sentences(text, max_tokens) ==
    LET sentences == SentenceSplit(text, 1, 1, <<>>)
    IN  IF Len(sentences) = 1 THEN <<text>>
        ELSE SentenceLoop(sentences, 1, <<>>, <<>>, 0, max_tokens)

\* ------------------------------------------------------------------------
\* Documents, metadata and configurations the chunker is run on
\* ------------------------------------------------------------------------
MaxParas == 3

P_Article7 == <<"A", "r", "t", "i", "c", "l", "e", " ", "7", ".">>
P_Recital5 == <<"(", "5", ")", " ", "A", "a", ".">>
P_Section3 == <<"3", " ", "§">>
P_Chapter1 == <<"C", "h", "a", "p", "t", "e", "r", " ", "1">>
P_Text == <<"T", "e", "x", "t", ".">>
P_Open == <<"a", "n", "d", ",">>
P_IfPoint == <<"I", "f", " ", "p", "o", "i", "n", "t", " ", "1", ".">>
P_Long == <<"A", "b", ";", " ", "C", "d", ".", " ", "E", "f", ".", "\n", "G", "h", ".">>

ParaPool == {P_Article7, P_Recital5, P_Section3, P_Chapter1, P_Text, P_Open, P_IfPoint, P_Long}

\* the three-paragraph scenario document
S_Article1 == <<"A", "r", "t", "i", "c", "l", "e", " ", "1", "\n", "T", "e", "x", "t", " ", "A", ".">>
S_Refers == <<"T", "h", "i", "s", " ", "r", "e", "f", "e", "r", "s", " ", "t", "o", " ", "p", "a", "r", "a", "g", "r", "a", "p", "h", " ", "1", " ", "a", "b", "o", "v", "e", ".">>
S_Article2 == <<"A", "r", "t", "i", "c", "l", "e", " ", "2", "\n", "T", "e", "x", "t", " ", "B", ".">>
ScenarioParas == <<S_Article1, S_Refers, S_Article2>>

DocParas == UNION {[1..n -> ParaPool] : n \in 1..MaxParas}

T_Unknown == <<"U", "n", "k", "n", "o", "w", "n">>
T_NA == <<"N", "/", "A">>
T_NationalLaw == <<"[", "N", "a", "t", "i", "o", "n", "a", "l", " ", "L", "a", "w", "]">>
T_IntlStandard == <<"[", "I", "n", "t", "e", "r", "n", "a", "t", "i", "o", "n", "a", "l", " ", "S", "t", "a", "n", "d", "a", "r", "d", "]">>

\* file names: one without a year, one with a year between word boundaries
N_Plain == <<"a", ".", "j", "s", "o", "n">>
N_Year == <<"l", "a", "w", " ", "2", "0", "1", "7", ".", "j", "s", "o", "n">>

Profiles ==
    { [chunk_target_tokens |-> 3, min_chunk_tokens |-> 2, max_chunk_tokens |-> 5,
       orphan_threshold |-> 3, overlap_tokens |-> 2, max_paragraph_tokens |-> 3] }

\* the settings the three-paragraph scenario is run with: the orphan
\* threshold below and above the token count of its last paragraph
ScenarioProfiles ==
    { [chunk_target_tokens |-> 15, min_chunk_tokens |-> 2, max_chunk_tokens |-> 20,
       orphan_threshold |-> ot, overlap_tokens |-> 2, max_paragraph_tokens |-> 15] :
       ot \in {3, 5, 8} }

\* the configurations a DocumentChunker is constructed with
ConfigsOf(profiles) ==
    { [chunk_target_tokens |-> p.chunk_target_tokens,
       min_chunk_tokens |-> p.min_chunk_tokens,
       max_chunk_tokens |-> p.max_chunk_tokens,
       orphan_threshold |-> p.orphan_threshold,
       overlap_tokens |-> p.overlap_tokens,
       max_paragraph_tokens |-> p.max_paragraph_tokens,
       merge_orphans |-> mo, enable_overlap |-> eo, keep_related_articles |-> kr] :
       p \in profiles, mo \in BOOLEAN, eo \in BOOLEAN, kr \in BOOLEAN }

Configs == ConfigsOf(Profiles)
ScenarioConfigs == ConfigsOf(ScenarioProfiles)

\* ------------------------------------------------------------------------
\* DocumentChunker.chunk_document as a state machine
\* ------------------------------------------------------------------------
VARIABLES
    cfg,                    \* the configuration the chunker was constructed with
    pc,                     \* "idle", "loop" (inside chunk_document), "done" (returned)
    doc,                    \* the DocumentInfo being chunked
    meta,                   \* regulation_name, year, doc_type of the document
    doc_header,             \* _create_document_header(...)
    todo,                   \* the (paragraph, sub-paragraph) pairs the loops have not reached
    chunks,                 \* the list of ChunkMetadata built so far / returned
    members,                \* history: the paragraphs each chunk of chunks was built from
    current_chunk_paras,
    current_chunk_type,
    current_article,
    current_paragraph_nums, \* reference to a list object of lists
    lists,                  \* the paragraph-number list objects, by reference
    char_offset,
    all_file_paths,         \* PreprocessingPipeline.run: the files the scan returned
    run,                    \* the arguments and locals of PreprocessingPipeline.run
    writer,                 \* the LocalFileWriter: file_counter and the files written
    call,                   \* a call of one of the pure helpers and its arguments
    ret                     \* what that call returned

vars == <<cfg, pc, doc, meta, doc_header, todo, chunks, members, current_chunk_paras,
          current_chunk_type, current_article, current_paragraph_nums, lists, char_offset,
          all_file_paths, run, writer, call, ret>>

\* what chunk_document leaves alone: the pipeline around it, the helper calls
outer_vars == <<all_file_paths, run, writer, call, ret>>

DigitSeq == <<"0", "1", "2", "3", "4", "5", "6", "7", "8", "9">>

RECURSIVE IntToStr(_)
\* str(n) for n >= 0
IntToStr(n) ==
    IF n < 10 THEN <<DigitSeq[n + 1]>>
    ELSE IntToStr(n \div 10) \o <<DigitSeq[(n % 10) + 1]>>

\* sub in text
Contains(text, sub) == \E i \in 1..(Len(text) + 1) : LitAt(text, i, sub)

\* ------------------------------------------------------------------------
\* MetadataExtractor
\* ------------------------------------------------------------------------

\* text[:n]
Take(text, n) == SubSeq(text, 1, IF Len(text) < n THEN Len(text) ELSE n)

RECURSIVE SplitLines(_)
\* text.split('\n')
SplitLines(text) ==
    IF \A i \in 1..Len(text) : text[i] # "\n" THEN <<text>>
    ELSE LET n == CHOOSE i \in 1..Len(text) :
                      text[i] = "\n" /\ \A k \in 1..(i - 1) : text[k] # "\n"
         IN  <<SubSeq(text, 1, n - 1)>> \o SplitLines(SubSeq(text, n + 1, Len(text)))

\* sub in text.lower(), sub in lower case
IContains(text, sub) == \E i \in 1..Len(text) : ILitAt(text, i, sub)

\* text.count(c)
Count(text, c) == Cardinality({i \in 1..Len(text) : text[i] = c})

\* text.isdigit()
IsDigitStr(text) == text # <<>> /\ \A i \in 1..Len(text) : IsDigit(text[i])

RECURSIVE StrToInt(_)
\* int(s) of a text of digits
StrToInt(s) ==
    IF s = <<>> THEN 0
    ELSE 10 * StrToInt(SubSeq(s, 1, Len(s) - 1))
            + (CHOOSE k \in 0..9 : DigitSeq[k + 1] = s[Len(s)])

\* an alternation of literal words matched at position i (re.IGNORECASE): the
\* position after the word, 0 if no word of the alternation is at i; no word
\* of the alternations below is a prefix of another
WordEndI(text, i, words) ==
    IF \E wd \in words : ILitAt(text, i, wd)
    THEN i + Len(CHOOSE wd \in words : ILitAt(text, i, wd))
    ELSE 0

\* the first position at or after i that holds the character c, 0 if none
FirstAt(text, i, c) ==
    IF \E k \in i..Len(text) : text[k] = c
    THEN CHOOSE k \in i..Len(text) : text[k] = c /\ \A j \in i..(k - 1) : text[j] # c
    ELSE 0

\* REGULATION_PATTERN, group 1
RegulationIssuers ==
    { <<"C", "o", "m", "m", "i", "s", "s", "i", "o", "n">>,
      <<"C", "o", "u", "n", "c", "i", "l">>,
      <<"E", "u", "r", "o", "p", "e", "a", "n", " ", "P", "a", "r", "l", "i", "a", "m", "e", "n", "t">>,
      <<"D", "i", "r", "e", "c", "t", "i", "v", "e">>,
      <<"R", "e", "g", "u", "l", "a", "t", "i", "o", "n">>,
      <<"D", "e", "c", "i", "s", "i", "o", "n">>,
      <<"C", "o", "r", "r", "i", "g", "e", "n", "d", "u", "m", " ", "t", "o">> }

\* REGULATION_PATTERN and DOC_TYPE_PATTERN: Implementing|Delegated|Amending
RegulationModifiers ==
    { <<"I", "m", "p", "l", "e", "m", "e", "n", "t", "i", "n", "g">>,
      <<"D", "e", "l", "e", "g", "a", "t", "e", "d">>,
      <<"A", "m", "e", "n", "d", "i", "n", "g">> }

\* REGULATION_PATTERN, group 2
RegulationKinds ==
    { <<"R", "e", "g", "u", "l", "a", "t", "i", "o", "n">>,
      <<"D", "i", "r", "e", "c", "t", "i", "v", "e">>,
      <<"D", "e", "c", "i", "s", "i", "o", "n">> }

\* REGULATION_PATTERN, group 3: EU|EC|EEC
RegulationBodies == { <<"E", "U">>, <<"E", "C">>, <<"E", "E", "C">> }

\* (\d{4}/\d+|\d+/\d{4}) matched at position p: the position after the match,
\* 0 if it does not match
RegulationNumberEnd(text, p) ==
    IF p > Len(text) THEN 0
    ELSE LET d == RunEnd(text, p, DigitSet)
         IN  IF d = p \/ d > Len(text) THEN 0
             ELSE IF text[d] # "/" THEN 0
             ELSE LET e == RunEnd(text, d + 1, DigitSet)
                  IN  IF d = p + 4 /\ e > d + 1 THEN e
                      ELSE IF e >= d + 5 THEN d + 5
                      ELSE 0

\* \((EU|EC|EEC)\)\s+(?:No\s+)?(\d{4}/\d+|\d+/\d{4}) matched at position q
RegulationRefEnd(text, q) ==
    IF q > Len(text) THEN 0
    ELSE IF text[q] # "(" THEN 0
    ELSE LET b == WordEndI(text, q + 1, RegulationBodies)
         IN  IF b = 0 \/ b > Len(text) THEN 0
             ELSE IF text[b] # ")" THEN 0
             ELSE LET s == RunEnd(text, b + 1, SpaceSet)
                      n == WordEndI(text, s, {<<"N", "o">>})
                  IN  IF s = b + 1 THEN 0
                      ELSE IF n # 0 /\ RunEnd(text, n, SpaceSet) > n
                      THEN RegulationNumberEnd(text, RunEnd(text, n, SpaceSet))
                      ELSE RegulationNumberEnd(text, s)

\* REGULATION_PATTERN matched at position i: the position after the match, 0
\* if it does not match at i
RegulationEndAt(text, i) ==
    LET a == WordEndI(text, i, RegulationIssuers)
    IN  IF a = 0 THEN 0
        ELSE LET s == RunEnd(text, a, SpaceSet)
                 m == WordEndI(text, s, RegulationModifiers)
                 k == WordEndI(text, IF m # 0 THEN RunEnd(text, m, SpaceSet) ELSE s,
                               RegulationKinds)
             IN  IF s = a \/ k = 0 THEN 0
                 ELSE IF RunEnd(text, k, SpaceSet) = k THEN 0
                 ELSE RegulationRefEnd(text, RunEnd(text, k, SpaceSet))

\* REGULATION_PATTERN.search(text): group(0), None without a match
REGULATION_PATTERN(text) ==
    LET starts == {i \in 1..Len(text) : RegulationEndAt(text, i) # 0}
    IN  IF starts = {} THEN None
        ELSE LET i == CHOOSE m \in starts : \A k \in starts : m <= k
             IN  SubSeq(text, i, RegulationEndAt(text, i) - 1)

\* FINNISH_ACT_PATTERN matched at position i: the position after the match, 0
\* if it does not match at i;
\*   (Laki|Act|laki)\s+(?:on\s+)?([^(\n]+?)\s*\((\d{1,4}/\d{4})
\* q is the first "(" after the word, x..y the span of group 2
FinnishActEndAt(text, i) ==
    LET a == WordEndI(text, i, {<<"L", "a", "k", "i">>, <<"A", "c", "t">>})
        q == IF a = 0 THEN 0 ELSE FirstAt(text, a, "(")
        fits == \E x \in (a + 1)..(q - 1) : \E y \in x..(q - 1) :
                    /\ \A k \in x..y : text[k] # "\n"
                    /\ \A k \in (y + 1)..(q - 1) : IsSpace(text[k])
                    /\ \/ \A k \in a..(x - 1) : IsSpace(text[k])
                       \/ \E o \in (a + 1)..(x - 3) :
                             /\ \A k \in a..(o - 1) : IsSpace(text[k])
                             /\ ILitAt(text, o, <<"o", "n">>)
                             /\ \A k \in (o + 2)..(x - 1) : IsSpace(text[k])
    IN  IF a = 0 \/ q = 0 THEN 0
        ELSE IF ~fits THEN 0
        ELSE LET d == RunEnd(text, q + 1, DigitSet)
             IN  IF d = q + 1 \/ d > q + 5 \/ d > Len(text) THEN 0
                 ELSE IF text[d] # "/" THEN 0
                 ELSE IF RunEnd(text, d + 1, DigitSet) >= d + 5 THEN d + 5
                 ELSE 0

\* FINNISH_ACT_PATTERN.search(text): group(0), None without a match
FINNISH_ACT_PATTERN(text) ==
    LET starts == {i \in 1..Len(text) : FinnishActEndAt(text, i) # 0}
    IN  IF starts = {} THEN None
        ELSE LET i == CHOOSE m \in starts : \A k \in starts : m <= k
             IN  SubSeq(text, i, FinnishActEndAt(text, i) - 1)

\* STANDARD_PATTERN, group 1
StandardNames ==
    { <<"B", "a", "s", "e", "l">>,
      <<"I", "F", "R", "S">>,
      <<"M", "i", "F", "I", "D">>,
      <<"M", "i", "F", "I", "R">>,
      <<"C", "R", "D">>,
      <<"C", "R", "R">>,
      <<"B", "R", "R", "D">>,
      <<"E", "B", "A">>,
      <<"S", "F", "D", "R">> }

\* STANDARD_PATTERN, group 2
StandardKinds ==
    { <<"F", "r", "a", "m", "e", "w", "o", "r", "k">>,
      <<"S", "t", "a", "n", "d", "a", "r", "d">>,
      <<"D", "i", "r", "e", "c", "t", "i", "v", "e">>,
      <<"R", "e", "g", "u", "l", "a", "t", "i", "o", "n">> }

\* STANDARD_PATTERN.search(text): group(0), None without a match;
\*   (Basel|...)\s*(Framework|Standard|Directive|Regulation)?\s*([IVX]+)?
\* every part after the name is optional and greedy
STANDARD_PATTERN(text) ==
    LET starts == {i \in 1..Len(text) : WordEndI(text, i, StandardNames) # 0}
    IN  IF starts = {} THEN None
        ELSE LET i == CHOOSE m \in starts : \A k \in starts : m <= k
                 s == RunEnd(text, WordEndI(text, i, StandardNames), SpaceSet)
                 k == WordEndI(text, s, StandardKinds)
                 t == RunEnd(text, IF k # 0 THEN k ELSE s, SpaceSet)
             IN  SubSeq(text, i, RunEnd(text, t, {"I", "V", "X", "i", "v", "x"}) - 1)

\* CELEX_PATTERN matched at position i: the position where group 1 starts, 0
\* if it does not match at i;  CELEX[_:]?(\d{5}[A-Z]\d{4}), IGNORECASE
CelexGroupAt(text, i) ==
    IF ~ILitAt(text, i, <<"C", "E", "L", "E", "X">>) THEN 0
    ELSE LET p == IF i + 5 <= Len(text) /\ text[i + 5] \in {"_", ":"} THEN i + 6 ELSE i + 5
         IN  IF /\ p + 9 <= Len(text)
                /\ \A k \in p..(p + 4) : IsDigit(text[k])
                /\ text[p + 5] \in UpperSet \cup LowerSet
                /\ \A k \in (p + 6)..(p + 9) : IsDigit(text[k])
             THEN p ELSE 0

\* CELEX_PATTERN.search(text): group(1), None without a match
CELEX_PATTERN(text) ==
    LET starts == {i \in 1..Len(text) : CelexGroupAt(text, i) # 0}
    IN  IF starts = {} THEN None
        ELSE LET i == CHOOSE m \in starts : \A k \in starts : m <= k
             IN  SubSeq(text, CelexGroupAt(text, i), CelexGroupAt(text, i) + 9)

\* the title taken from a line of a national law: with more than one "(" in
\* the line, group(1).strip() of re.search(r'^(.+?\)\s*(?:\(.+?\))?)', line)
NationalTitle(line) ==
    IF Count(line, "(") > 1 /\ FirstAt(line, 2, ")") # 0
    THEN LET s == RunEnd(line, FirstAt(line, 2, ")") + 1, SpaceSet)
         IN  IF s <= Len(line) /\ line[s] = "(" /\ FirstAt(line, s + 2, ")") # 0
             THEN SubSeq(line, 1, FirstAt(line, s + 2, ")"))
             ELSE SubSeq(line, 1, FirstAt(line, 2, ")"))
    ELSE line

RECURSIVE NationalLawScan(_, _)
\* the scan of the first 15 lines for the title of a national law, from line
\* k on: None if no line gives one
NationalLawScan(lines, k) ==
    IF k > Len(lines) \/ k > 15 THEN None
    ELSE LET line == Strip(lines[k])
         IN  IF Len(line) < 10 /\ Contains(line, <<"(">>) /\ IsDigit(line[1])
             THEN NationalLawScan(lines, k + 1)
             ELSE IF \/ IContains(line, <<"t", "r", "a", "n", "s", "l", "a", "t", "i", "o", "n", " ", "f", "r", "o", "m">>)
                     \/ IContains(line, <<"l", "e", "g", "a", "l", "l", "y", " ", "b", "i", "n", "d", "i", "n", "g">>)
             THEN NationalLawScan(lines, k + 1)
             ELSE IF IContains(line, <<"m", "i", "n", "i", "s", "t", "r", "y", " ", "o", "f">>)
             THEN NationalLawScan(lines, k + 1)
             ELSE IF /\ \/ Contains(line, <<"A", "c", "t", " ", "o", "n">>)
                        \/ Contains(line, <<"L", "a", "k", "i">>)
                     /\ Len(line) > 20
             THEN NationalTitle(line)
             ELSE NationalLawScan(lines, k + 1)

RECURSIVE SubstantialLine(_, _)
\* the fallback of extract_regulation_name: the first of the first 5 lines
\* that is longer than 20 characters and not a number, None if there is none
SubstantialLine(lines, k) ==
    IF k > Len(lines) \/ k > 5 THEN None
    ELSE LET cleaned == Strip(lines[k])
         IN  IF Len(cleaned) > 20 /\ ~IsDigitStr(cleaned) THEN Take(cleaned, 150)
             ELSE SubstantialLine(lines, k + 1)

\* extract_regulation_name
extract_regulation_name(first_paragraph, source_type) ==
    LET search_text == Take(first_paragraph, 800)
        title == IF source_type = "national_law"
                 THEN NationalLawScan(SplitLines(search_text), 1) ELSE None
    IN  IF title # None THEN title
        ELSE IF REGULATION_PATTERN(search_text) # None THEN REGULATION_PATTERN(search_text)
        ELSE IF FINNISH_ACT_PATTERN(search_text) # None THEN FINNISH_ACT_PATTERN(search_text)
        ELSE IF STANDARD_PATTERN(search_text) # None THEN STANDARD_PATTERN(search_text)
        ELSE IF CELEX_PATTERN(search_text) # None
        THEN <<"C", "E", "L", "E", "X", " ">> \o CELEX_PATTERN(search_text)
        ELSE IF SubstantialLine(SplitLines(first_paragraph), 1) # None
        THEN SubstantialLine(SplitLines(first_paragraph), 1)
        ELSE Strip(Take(first_paragraph, 100))

\* YEAR_PATTERN r'\b(19\d{2}|20\d{2})\b' matches at position i
YearAt(text, i) ==
    /\ i + 3 <= Len(text)
    /\ WordBoundary(text, i)
    /\ <<text[i], text[i + 1]>> \in {<<"1", "9">>, <<"2", "0">>}
    /\ IsDigit(text[i + 2])
    /\ IsDigit(text[i + 3])
    /\ WordBoundary(text, i + 4)

\* extract_year returning the first year found in the text, not the greatest
extract_year_first(text, filename) ==
    LET at == {j \in 1..Len(text) : YearAt(text, j)}
        first == CHOOSE m \in at : \A k \in at : m <= k
    IN  IF at # {} THEN StrToInt(SubSeq(text, first, first + 3)) ELSE 0

\* extract_year; 0 stands for None
extract_year(text, filename) ==
    LET years == {StrToInt(SubSeq(text, i, i + 3)) : i \in {j \in 1..Len(text) : YearAt(text, j)}}
        filename_matches == {j \in 1..Len(filename) : YearAt(filename, j)}
    IN  IF years # {} THEN CHOOSE y \in years : \A z \in years : z <= y
        ELSE IF filename_matches # {}
        THEN LET last == CHOOSE m \in filename_matches : \A k \in filename_matches : k <= m
             IN  StrToInt(SubSeq(filename, last, last + 1))
        ELSE 0

\* DOC_TYPE_PATTERN, group 1
DocTypeIssuers ==
    { <<"C", "o", "m", "m", "i", "s", "s", "i", "o", "n">>,
      <<"C", "o", "u", "n", "c", "i", "l">>,
      <<"E", "u", "r", "o", "p", "e", "a", "n", " ", "P", "a", "r", "l", "i", "a", "m", "e", "n", "t">>,
      <<"M", "i", "n", "i", "s", "t", "r", "y">> }

\* DOC_TYPE_PATTERN, group 3
DocTypeKinds ==
    { <<"R", "e", "g", "u", "l", "a", "t", "i", "o", "n">>,
      <<"D", "i", "r", "e", "c", "t", "i", "v", "e">>,
      <<"D", "e", "c", "i", "s", "i", "o", "n">>,
      <<"C", "o", "r", "r", "i", "g", "e", "n", "d", "u", "m">>,
      <<"A", "c", "t">>,
      <<"L", "a", "k", "i">>,
      <<"F", "r", "a", "m", "e", "w", "o", "r", "k">>,
      <<"S", "t", "a", "n", "d", "a", "r", "d">> }

\* the keywords extract_doc_type looks for in an international standard
DocTypeKeywords ==
    <<<<"F", "r", "a", "m", "e", "w", "o", "r", "k">>,
      <<"S", "t", "a", "n", "d", "a", "r", "d">>,
      <<"G", "u", "i", "d", "e", "l", "i", "n", "e">>,
      <<"D", "i", "r", "e", "c", "t", "i", "v", "e">>,
      <<"R", "e", "g", "u", "l", "a", "t", "i", "o", "n">>>>

\* DOC_TYPE_PATTERN.search(first_paragraph): the groups that took part in the
\* match, <<>> without a match; the pattern is anchored at the start
DocTypeGroups(text) ==
    LET a == WordEndI(text, 1, DocTypeIssuers)
        g1 == a # 0 /\ RunEnd(text, a, SpaceSet) > a
        p1 == IF g1 THEN RunEnd(text, a, SpaceSet) ELSE 1
        m == WordEndI(text, p1, RegulationModifiers)
        g2 == m # 0 /\ RunEnd(text, m, SpaceSet) > m
        p2 == IF g2 THEN RunEnd(text, m, SpaceSet) ELSE p1
        k == WordEndI(text, p2, DocTypeKinds)
    IN  IF k = 0 THEN <<>>
        ELSE (IF g1 THEN <<SubSeq(text, 1, a - 1)>> ELSE <<>>)
                \o (IF g2 THEN <<SubSeq(text, p1, m - 1)>> ELSE <<>>)
                \o <<SubSeq(text, p2, k - 1)>>

\* extract_doc_type
extract_doc_type(first_paragraph, source_type) ==
    LET groups == DocTypeGroups(first_paragraph)
        doc_type == JoinWith(SP, groups)
        search_lower == Take(first_paragraph, 500)
        hits == {k \in 1..Len(DocTypeKeywords) :
                    IContains(search_lower, Lower(DocTypeKeywords[k]))}
    IN  IF groups # <<>>
        THEN IF groups[Len(groups)] = <<"L", "a", "k", "i">>
             THEN JoinWith(SP, [groups EXCEPT ![Len(groups)] = <<"A", "c", "t">>])
             ELSE doc_type
        ELSE IF source_type = "international_standard" /\ hits # {}
        THEN DocTypeKeywords[CHOOSE m \in hits : \A k \in hits : m <= k]
        ELSE IF source_type = "national_law"
                /\ (IContains(search_lower, <<"l", "a", "k", "i">>) \/ IContains(search_lower, <<"a", "c", "t">>))
        THEN <<"A", "c", "t">>
        ELSE IF source_type = "national_law" /\ IContains(search_lower, <<"a", "s", "e", "t", "u", "s">>)
        THEN <<"D", "e", "c", "r", "e", "e">>
        ELSE T_Unknown

\* ------------------------------------------------------------------------
\* DocumentChunker.chunk_document: the parts of the loop body
\* ------------------------------------------------------------------------

\* _create_document_header
create_document_header(source_type, regulation_name, year, doc_type) ==
    LET parts1 == IF /\ regulation_name # <<>>
                     /\ regulation_name \notin {T_Unknown, T_NA}
                     /\ ~LitAt(regulation_name, 1, <<"1", "(">>)
                  THEN <<regulation_name>> ELSE <<>>
        typed == doc_type # <<>> /\ doc_type # T_Unknown
        parts2 == IF typed /\ parts1 = <<>> THEN <<doc_type>> ELSE parts1
        parts3 == IF year # 0 /\ ~\E i \in 1..Len(parts2) : Contains(parts2[i], IntToStr(year))
                  THEN IF parts2 # <<>>
                       THEN Append(parts2, <<"(">> \o IntToStr(year) \o <<")">>)
                       ELSE <<IntToStr(year)>>
                  ELSE parts2
        parts4 == IF source_type = "national_law" THEN Append(parts3, T_NationalLaw)
                  ELSE IF source_type = "international_standard"
                  THEN Append(parts3, T_IntlStandard)
                  ELSE parts3
    IN  IF typed /\ parts1 # <<>> /\ year # 0
        THEN parts1[1] \o <<" ", "(">> \o IntToStr(year) \o <<")">>
        ELSE JoinWith(SP, parts4)

\* the sub-paragraphs the inner loop runs over for one paragraph
SubParasOf(para, max_para_tokens) ==
    IF count_tokens(para) > max_para_tokens
    THEN split_at_sentences(para, max_para_tokens)
    ELSE <<para>>

RECURSIVE WorkList(_, _, _)
\* the iterations of the two nested loops of chunk_document, in order
WorkList(paragraphs, i, max_para_tokens) ==
    IF i > Len(paragraphs) THEN <<>>
    ELSE LET subs == SubParasOf(paragraphs[i], max_para_tokens)
         IN  [k \in 1..Len(subs) |-> [para |-> paragraphs[i], sub_para |-> subs[k]]]
                \o WorkList(paragraphs, i + 1, max_para_tokens)

\* major_boundary that leaves the article boundaries out
major_boundary_section_only(para_type) == para_type \in {"section"}

\* para_type in ["article", "section"], the boundary types of rule 2
major_boundary(para_type) == para_type \in {"article", "section"}

\* the split decision without the "if current_chunk_paras:" guard: an empty
\* buffer is split off too
should_split_empty_buffer(paras, sub_para, para_type, article, c) ==
    IF paras = <<>> THEN TRUE
    ELSE count_tokens(JoinWith(NL, paras)) + count_tokens(sub_para) > c.max_chunk_tokens

\* the split decision with the boundary rule decided before the cohesion
\* override
should_split_boundary_first(paras, sub_para, para_type, article, c) ==
    IF paras = <<>> THEN FALSE
    ELSE LET current_tokens == count_tokens(JoinWith(NL, paras))
             sub_para_tokens == count_tokens(sub_para)
         IN  IF major_boundary(para_type) /\ current_tokens >= c.min_chunk_tokens
             THEN ends_at_sentence_boundary(paras[Len(paras)])
             ELSE IF c.keep_related_articles /\ should_keep_together(paras, sub_para, article)
             THEN ~(10 * (current_tokens + sub_para_tokens) <= 12 * c.max_chunk_tokens)
             ELSE IF current_tokens + sub_para_tokens > c.max_chunk_tokens
             THEN TRUE
             ELSE IF /\ current_tokens >= c.chunk_target_tokens
                     /\ para_type \in {"article", "recital", "section"}
             THEN ends_at_sentence_boundary(paras[Len(paras)])
             ELSE FALSE

\* the split decision of the loop body ("SMART SPLITTING LOGIC")
should_split(paras, sub_para, para_type, article, c) ==
    IF paras = <<>> THEN FALSE
    ELSE LET current_tokens == count_tokens(JoinWith(NL, paras))
             sub_para_tokens == count_tokens(sub_para)
         IN  IF c.keep_related_articles /\ should_keep_together(paras, sub_para, article)
             THEN ~(10 * (current_tokens + sub_para_tokens) <= 12 * c.max_chunk_tokens)
             ELSE IF major_boundary(para_type) /\ current_tokens >= c.min_chunk_tokens
             THEN ends_at_sentence_boundary(paras[Len(paras)])
             ELSE IF current_tokens + sub_para_tokens > c.max_chunk_tokens
             THEN TRUE
             ELSE IF /\ current_tokens >= c.chunk_target_tokens
                     /\ para_type \in {"article", "recital", "section"}
             THEN ends_at_sentence_boundary(paras[Len(paras)])
             ELSE FALSE

\* the header prefix, were every chunk of a document given it
HeaderPrefix_every_chunk(chs, header) ==
    IF header # <<>> THEN header \o NL \o NL ELSE <<>>

\* the header prefix chunk_text gets: only the first chunk of a document
HeaderPrefix(chs, header) ==
    IF Len(chs) = 0 /\ header # <<>> THEN header \o NL \o NL ELSE <<>>

RECURSIVE ParaIndices_no_newline(_, _)
\* ParaIndices without the "+1 for newline" between paragraphs
ParaIndices_no_newline(paras, pos) ==
    IF paras = <<>> THEN <<>>
    ELSE <<<<pos, pos + Len(paras[1])>>>>
            \o ParaIndices_no_newline(Tail(paras), pos + Len(paras[1]))

RECURSIVE ParaIndices(_, _)
\* the (start, end) pairs of the paragraphs, laid out from offset pos on
ParaIndices(paras, pos) ==
    IF paras = <<>> THEN <<>>
    ELSE <<<<pos, pos + Len(paras[1])>>>>
            \o ParaIndices(Tail(paras), pos + Len(paras[1]) + 1)

\* _create_chunk_metadata, called with paragraph_indices given;
\* paragraph_numbers is the reference of the list object passed in
create_chunk_metadata(m, chunk_id, chunk_text, chunk_type, article_number, paragraph_numbers, char_start, paragraph_indices) ==
    [regulation_name |-> m.regulation_name,
     year |-> m.year,
     doc_type |-> m.doc_type,
     chunk_id |-> chunk_id,
     chunk_type |-> chunk_type,
     article_number |-> article_number,
     paragraph_numbers |-> paragraph_numbers,
     full_text |-> chunk_text,
     paragraph_indices |-> paragraph_indices,
     char_start |-> char_start,
     char_end |-> char_start + Len(chunk_text),
     token_count |-> count_tokens(chunk_text),
     source_type |-> m.source_type]

\* next_chunk_id counting from one
next_chunk_id_one_based(chs) == Len(chs) + 1

\* chunk_id=len(chunks), the id a chunk gets when it is appended
next_chunk_id(chs) == Len(chs)

\* buffer_after_split that seeds the overlap whether or not it is enabled
buffer_after_split_always_overlap(c, paras) == calculate_overlap(paras, c.overlap_tokens)

\* the buffer a split leaves behind: the overlap if enabled, else empty
buffer_after_split(c, paras) ==
    IF c.enable_overlap THEN calculate_overlap(paras, c.overlap_tokens) ELSE <<>>

\* DocumentScanner.load_document: the DocumentInfo of a file that holds the
\* paragraphs; source_type is what _extract_source_info reads from the path
DocumentInfoOf(paragraphs, source_type, filename) ==
    [paragraphs |-> paragraphs,
     full_text |-> JoinWith(NL, paragraphs),
     source_type |-> source_type,
     filename |-> filename]

\* the text chunk_document extracts the metadata from
first_text(d) ==
    IF d.source_type = "national_law"
    THEN JoinWith(NL, Take(d.paragraphs, 20))
    ELSE d.paragraphs[1]

\* "Extract metadata from first few paragraphs": regulation_name, year (0
\* stands for None) and doc_type of the document
MetadataOf(d) ==
    [regulation_name |-> extract_regulation_name(first_text(d), d.source_type),
     year |-> extract_year(first_text(d), d.filename),
     doc_type |-> extract_doc_type(first_text(d), d.source_type),
     source_type |-> d.source_type]

\* full_text[s:e], with the clamping of Python slices
Slice(text, s, e) ==
    LET hi == IF e > Len(text) THEN Len(text) ELSE e
    IN  IF s >= hi THEN <<>> ELSE SubSeq(text, s + 1, hi)

\* a DocumentChunker constructed with one of configs, chunk_document not called
Constructed(configs) ==
    /\ cfg \in configs
    /\ pc = "idle"
    /\ doc = [paragraphs |-> <<>>, full_text |-> <<>>, source_type |-> "unknown",
              filename |-> <<>>]
    /\ meta = [regulation_name |-> <<>>, year |-> 0, doc_type |-> <<>>,
               source_type |-> "unknown"]
    /\ doc_header = <<>>
    /\ todo = <<>>
    /\ chunks = <<>>
    /\ members = <<>>
    /\ current_chunk_paras = <<>>
    /\ current_chunk_type = "mixed"
    /\ current_article = None
    /\ current_paragraph_nums = 1
    /\ lists = << <<>> >>
    /\ char_offset = 0

InitWith(configs) ==
    /\ Constructed(configs)
    /\ all_file_paths = <<>>
    /\ run = [pc |-> "none"]
    /\ writer = [file_counter |-> 0, files |-> <<>>]
    /\ call = [fn |-> "none"]
    /\ ret = <<>>

Init == InitWith(Configs)

\* current_article at the start of a call, were it kept in the chunker from
\* the call before
initial_article_carried(previous) == previous

\* current_article at the start of a call: a local, None whatever the call
\* before left
initial_article(previous) == None

\* chunk_document, up to the loop, called on one of the documents docs: the
\* locals, the metadata and the header
chunk_document_begin(docs) ==
    /\ pc = "idle"
    /\ \E d \in docs :
          LET m == MetadataOf(d)
          IN  /\ doc' = d
              /\ meta' = m
              /\ doc_header' = create_document_header(d.source_type, m.regulation_name,
                                                      m.year, m.doc_type)
              /\ todo' = WorkList(d.paragraphs, 1, cfg.max_paragraph_tokens)
    /\ chunks' = <<>>
    /\ members' = <<>>
    /\ current_chunk_paras' = <<>>
    /\ current_chunk_type' = "mixed"
    /\ current_article' = initial_article(current_article)
    /\ current_paragraph_nums' = 1
    /\ lists' = << <<>> >>
    /\ char_offset' = 0
    /\ pc' = "loop"
    /\ UNCHANGED <<cfg, outer_vars>>

\* "Update tracking": the running article number after a paragraph classified b
tracked_article(b, article) ==
    IF b.type = "article" /\ b.num # None THEN b.num ELSE article

\* tracked_type in which an article boundary leaves the running type alone
tracked_type_no_article(b, chunk_type) ==
    IF b.type = "recital" THEN "recital"
    ELSE IF b.type = "section" THEN "section"
    ELSE chunk_type

\* "Update tracking": the running chunk type after a paragraph classified b
tracked_type(b, chunk_type) ==
    IF b.type = "article" /\ b.num # None THEN "article"
    ELSE IF b.type = "recital" THEN "recital"
    ELSE IF b.type = "section" THEN "section"
    ELSE chunk_type

\* "Add paragraph to current chunk" and "Update tracking", the tail of the loop
\* body; paras1, lists1, nums1 are the buffer and the number list it runs on
AppendAndTrack(paras1, lists1, nums1) ==
    LET item == Head(todo)
        b == detect_boundary(item.para)
    IN  /\ current_chunk_paras' = Append(paras1, item.sub_para)
        /\ current_paragraph_nums' = nums1
        /\ current_article' = tracked_article(b, current_article)
        /\ current_chunk_type' = tracked_type(b, current_chunk_type)
        /\ lists' = IF b.type = "recital" /\ b.nums # <<>>
                    THEN [lists1 EXCEPT ![nums1] = @ \o b.nums]
                    ELSE lists1
        /\ todo' = Tail(todo)

\* one iteration of the loop body in which should_split is False
AppendParagraph ==
    /\ pc = "loop"
    /\ todo # <<>>
    /\ ~should_split(current_chunk_paras, Head(todo).sub_para,
                     detect_boundary(Head(todo).para).type, current_article, cfg)
    /\ AppendAndTrack(current_chunk_paras, lists, current_paragraph_nums)
    /\ UNCHANGED <<cfg, pc, doc, meta, doc_header, chunks, members, char_offset, outer_vars>>

\* one iteration of the loop body in which should_split is True: the buffer
\* is emitted as a chunk, the buffer restarts (with the overlap if enabled)
SplitAndAppend ==
    /\ pc = "loop"
    /\ todo # <<>>
    /\ should_split(current_chunk_paras, Head(todo).sub_para,
                    detect_boundary(Head(todo).para).type, current_article, cfg)
    /\ LET prefix == HeaderPrefix(chunks, doc_header)
           chunk_text == prefix \o JoinWith(NL, current_chunk_paras)
           para_indices == ParaIndices(current_chunk_paras, Len(prefix))
           overlap_paras == buffer_after_split(cfg, current_chunk_paras)
           fresh == ~cfg.enable_overlap \/ overlap_paras = <<>>
       IN  /\ chunks' = Append(chunks,
                  create_chunk_metadata(meta, next_chunk_id(chunks), chunk_text, current_chunk_type,
                                        current_article, current_paragraph_nums,
                                        char_offset, para_indices))
           /\ members' = Append(members, current_chunk_paras)
           /\ char_offset' = char_offset + Len(chunk_text) + 1
           /\ AppendAndTrack(overlap_paras,
                             IF fresh THEN Append(lists, <<>>) ELSE lists,
                             IF fresh THEN Len(lists) + 1 ELSE current_paragraph_nums)
    /\ UNCHANGED <<cfg, pc, doc, meta, doc_header, outer_vars>>

\* the text and token count of the final buffer
FinalPrefix == HeaderPrefix(chunks, doc_header)
FinalText == FinalPrefix \o JoinWith(NL, current_chunk_paras)

\* orphan_merge without the max_chunk_tokens * 1.2 check of the merged text
orphan_merge_no_limit ==
    /\ current_chunk_paras # <<>>
    /\ cfg.merge_orphans
    /\ chunks # <<>>
    /\ count_tokens(FinalText) < cfg.orphan_threshold

\* the condition under which the final buffer is merged into the last chunk
orphan_merge ==
    /\ current_chunk_paras # <<>>
    /\ cfg.merge_orphans
    /\ chunks # <<>>
    /\ count_tokens(FinalText) < cfg.orphan_threshold
    /\ 10 * count_tokens(chunks[Len(chunks)].full_text \o NL \o FinalText)
          <= 12 * cfg.max_chunk_tokens

\* "Add final chunk": the final buffer is merged into the previous chunk
FinalMerge ==
    /\ pc = "loop"
    /\ todo = <<>>
    /\ orphan_merge
    /\ LET n == Len(chunks)
           prev_chunk == chunks[n]
           merged_text == prev_chunk.full_text \o NL \o FinalText
           offset == Len(prev_chunk.full_text) + 1
       IN  /\ chunks' = [chunks EXCEPT ![n] =
                  [prev_chunk EXCEPT
                      !.full_text = merged_text,
                      !.paragraph_indices = @ \o ParaIndices(current_chunk_paras, offset),
                      !.char_end = char_offset + Len(FinalText),
                      !.token_count = count_tokens(merged_text)]]
           /\ members' = [members EXCEPT ![n] = @ \o current_chunk_paras]
           /\ lists' = IF lists[current_paragraph_nums] # <<>>
                       THEN [lists EXCEPT ![prev_chunk.paragraph_numbers] =
                                @ \o lists[current_paragraph_nums]]
                       ELSE lists
    /\ pc' = "done"
    /\ UNCHANGED <<cfg, doc, meta, doc_header, todo, current_chunk_paras, current_chunk_type,
                   current_article, current_paragraph_nums, char_offset, outer_vars>>

\* "Add final chunk": the final buffer becomes one more chunk
FinalEmit ==
    /\ pc = "loop"
    /\ todo = <<>>
    /\ ~orphan_merge
    /\ IF current_chunk_paras # <<>>
       THEN /\ chunks' = Append(chunks,
                   create_chunk_metadata(meta, next_chunk_id(chunks), FinalText, current_chunk_type,
                                         current_article, current_paragraph_nums,
                                         char_offset,
                                         ParaIndices(current_chunk_paras, Len(FinalPrefix))))
            /\ members' = Append(members, current_chunk_paras)
       ELSE UNCHANGED <<chunks, members>>
    /\ pc' = "done"
    /\ UNCHANGED <<cfg, doc, meta, doc_header, todo, current_chunk_paras, current_chunk_type,
                   current_article, current_paragraph_nums, lists, char_offset, outer_vars>>

\* the documents the chunker is run on
Docs == {DocumentInfoOf(ps, "eu_legislation", N_Plain) : ps \in DocParas}

BeginDocument == chunk_document_begin(Docs)

Next ==
    \/ BeginDocument
    \/ AppendParagraph
    \/ SplitAndAppend
    \/ FinalMerge
    \/ FinalEmit

Spec == Init /\ [][Next]_vars

\* the chunker run to its return: documents of article and section
\* boundaries and an oversized paragraph; the loop body and the final step
\* are plain sequential code, so a call that has begun takes its next step
FairParaPool == {P_Article7, P_Long, P_Section3}

FairDocs ==
    {DocumentInfoOf(ps, "eu_legislation", N_Plain) :
        ps \in UNION {[1..n -> FairParaPool] : n \in 1..MaxParas}}

\* with merge_orphans on the final step is a merge or an emission, as the
\* orphan test decides; with it off it is the same emission
InitFair == InitWith({c \in Configs : c.merge_orphans})

BeginFair == chunk_document_begin(FairDocs)

NextFair ==
    \/ BeginFair
    \/ AppendParagraph
    \/ SplitAndAppend
    \/ FinalMerge
    \/ FinalEmit

SpecFair ==
    /\ InitFair
    /\ [][NextFair]_vars
    /\ WF_vars(AppendParagraph \/ SplitAndAppend \/ FinalMerge \/ FinalEmit)

\* the chunker run on the three-paragraph scenario document
InitScenario == InitWith(ScenarioConfigs)

BeginScenario == chunk_document_begin({DocumentInfoOf(ScenarioParas, "eu_legislation", N_Plain)})

NextScenario ==
    \/ BeginScenario
    \/ AppendParagraph
    \/ SplitAndAppend
    \/ FinalMerge
    \/ FinalEmit

SpecScenario == InitScenario /\ [][NextScenario]_vars

\* ------------------------------------------------------------------------
\* PreprocessingPipeline.run: the loop over the files, with the chunker
\* inside it and the LocalFileWriter behind it
\* ------------------------------------------------------------------------
MaxFiles == 3

\* a chunk as a reader of the list sees it: paragraph_numbers by value
ChunkView(chunk, ls) == [chunk EXCEPT !.paragraph_numbers = ls[chunk.paragraph_numbers]]

\* the files of a scan: one that cannot be read or parsed, one whose pages
\* hold no paragraph, and two documents, the first of them chunked with a
\* split and an orphan merge
F_Unreadable == [kind |-> "unreadable", paragraphs |-> <<>>,
                 source_type |-> "eu_legislation", filename |-> N_Plain]
F_NoParagraphs == [kind |-> "json", paragraphs |-> <<>>,
                   source_type |-> "eu_legislation", filename |-> N_Plain]
F_Article == [kind |-> "json", paragraphs |-> <<P_Article7, P_Chapter1, P_Section3>>,
              source_type |-> "eu_legislation", filename |-> N_Plain]
F_Section == [kind |-> "json", paragraphs |-> <<P_Text, P_Section3>>,
              source_type |-> "national_law", filename |-> N_Year]

FilePool == {F_Unreadable, F_NoParagraphs, F_Article, F_Section}

\* the arguments of run and the configured output batch size
RunArgs ==
    { [use_batches |-> ub, write_batch_size |-> bi, chunk_batch_size |-> bs] :
        ub \in BOOLEAN, bi \in {1, 2}, bs \in {1, 2} }

\* the configurations the pipeline's chunker is constructed with
PipelineConfigs == {c \in Configs : c.merge_orphans /\ c.keep_related_articles}

\* DocumentScanner.load_document(file_path) returns None: the file cannot be
\* read or parsed (the exception is caught), or it holds no paragraph
load_fails(file) == file.kind = "unreadable" \/ file.paragraphs = <<>>

\* DocumentScanner.load_document(file_path) for a file it loads
load_document(file) == DocumentInfoOf(file.paragraphs, file.source_type, file.filename)

\* the batches write_chunks cuts its chunks into
BatchesOf(chs, batch_size) ==
    [b \in 1..((Len(chs) + batch_size - 1) \div batch_size) |->
        SubSeq(chs, (b - 1) * batch_size + 1,
               IF b * batch_size < Len(chs) THEN b * batch_size ELSE Len(chs))]

\* f"{self.file_counter:06d}", the part of the file name that varies
FileName(counter) ==
    LET digits == IntToStr(counter)
    IN  [i \in 1..(IF Len(digits) < 6 THEN 6 - Len(digits) ELSE 0) |-> "0"] \o digits

\* write_chunks numbering its files from zero in every call
write_chunks_local_counter(w, chs, batch_size, n) ==
    [file_counter |-> n,
     files |-> w.files \o
               [b \in 1..n |-> [name |-> FileName(b - 1),
                                chunks |-> BatchesOf(chs, batch_size)[b]]]]

\* LocalFileWriter.write_chunks(chs, batch_size) on the writer w, n of its
\* batches written: all of them when it returns, fewer when a write raised
write_chunks(w, chs, batch_size, n) ==
    [file_counter |-> w.file_counter + n,
     files |-> w.files \o
               [b \in 1..n |-> [name |-> FileName(w.file_counter + b - 1),
                                chunks |-> BatchesOf(chs, batch_size)[b]]]]

\* the names write_chunks returns after writing n batches
written_names(w, n) == [b \in 1..n |-> FileName(w.file_counter + b - 1)]

InitPipeline ==
    /\ Constructed(PipelineConfigs)
    /\ all_file_paths \in UNION {[1..n -> FilePool] : n \in 0..MaxFiles}
    /\ \E a \in RunArgs :
          run = [pc |-> "loop",
                 use_batches |-> a.use_batches,
                 write_batch_size |-> a.write_batch_size,
                 chunk_batch_size |-> a.chunk_batch_size,
                 idx |-> 0,
                 all_chunks |-> <<>>,
                 written_files |-> <<>>,
                 errors |-> 0,
                 docs_processed |-> 0,
                 total_chunks_written |-> 0,
                 skipped_files |-> <<>>,
                 outcomes |-> <<>>,
                 write_failed |-> FALSE]
    /\ writer = [file_counter |-> 0, files |-> <<>>]
    /\ call = [fn |-> "none"]
    /\ ret = <<>>

\* the file the loop of run is at
CurrentFile == all_file_paths[run.idx + 1]

\* the loop is at the top of an iteration for a file
AtFile == run.pc = "loop" /\ pc = "idle" /\ run.idx < Len(all_file_paths)

\* one iteration in which load_document returns None: "if not doc: ... continue"
LoadFails ==
    /\ AtFile
    /\ load_fails(CurrentFile)
    /\ run' = [run EXCEPT
                  !.errors = @ + 1,
                  !.skipped_files = Append(@, [file |-> run.idx + 1, reason |-> "load"]),
                  !.outcomes = Append(@, [status |-> "load_failed", chunks |-> <<>>]),
                  !.idx = @ + 1]
    /\ UNCHANGED <<cfg, pc, doc, meta, doc_header, todo, chunks, members,
                   current_chunk_paras, current_chunk_type, current_article,
                   current_paragraph_nums, lists, char_offset,
                   all_file_paths, writer, call, ret>>

\* the file is loaded and self.chunker.chunk_document(doc) is called
LoadDocument ==
    /\ AtFile
    /\ ~load_fails(CurrentFile)
    /\ chunk_document_begin({load_document(CurrentFile)})

\* all_chunks after the chunk_document call raised with the chunks partial
\* in its list, those going to the output all the same
all_chunks_after_raise_kept(all, partial) == all \o partial

\* all_chunks after the chunk_document call raised with the chunks partial
\* in its list: the list is a local of the call and is lost with it
all_chunks_after_raise(all, partial) == all

\* the chunks of the chunker's list as run keeps them, for the file at index
TaggedChunks(index) ==
    [i \in 1..Len(chunks) |-> [doc |-> index, chunk |-> ChunkView(chunks[i], lists)]]

\* chunk_document raises somewhere in its loop: "except Exception as
\* chunk_error: ... continue"
ChunkingRaises ==
    /\ run.pc = "loop"
    /\ pc = "loop"
    /\ pc' = "idle"
    /\ run' = [run EXCEPT
                  !.all_chunks = all_chunks_after_raise(@, TaggedChunks(run.idx + 1)),
                  !.errors = @ + 1,
                  !.skipped_files = Append(@, [file |-> run.idx + 1, reason |-> "chunking"]),
                  !.outcomes = Append(@, [status |-> "chunk_error", chunks |-> <<>>]),
                  !.idx = @ + 1]
    /\ UNCHANGED <<cfg, doc, meta, doc_header, todo, chunks, members,
                   current_chunk_paras, current_chunk_type, current_article,
                   current_paragraph_nums, lists, char_offset,
                   all_file_paths, writer, call, ret>>

\* chunk_document returns: all_chunks.extend(chunks), docs_processed += 1 and,
\* in batch mode every write_batch_size documents, the flush to disk, which
\* writes n of its batches and raises if those are not all
ChunkingReturns ==
    /\ run.pc = "loop"
    /\ pc = "done"
    /\ pc' = "idle"
    /\ LET extended == run.all_chunks \o TaggedChunks(run.idx + 1)
           processed == run.docs_processed + 1
           nb == Len(BatchesOf(extended, run.chunk_batch_size))
           returned == [run EXCEPT
                          !.all_chunks = extended,
                          !.docs_processed = processed,
                          !.outcomes = Append(@, [status |-> "chunked",
                                                  chunks |-> TaggedChunks(run.idx + 1)]),
                          !.idx = @ + 1]
       IN  IF run.use_batches /\ processed % run.write_batch_size = 0
           THEN \E n \in 0..nb :
                   /\ writer' = write_chunks(writer, extended, run.chunk_batch_size, n)
                   /\ run' = IF n = nb
                             THEN [returned EXCEPT
                                     !.written_files = @ \o written_names(writer, nb),
                                     !.total_chunks_written = @ + Len(extended),
                                     !.all_chunks = <<>>]
                             ELSE [returned EXCEPT
                                     !.errors = @ + 1,
                                     !.skipped_files =
                                         Append(@, [file |-> run.idx + 1, reason |-> "unexpected"]),
                                     !.write_failed = TRUE]
           ELSE /\ run' = returned
                /\ UNCHANGED writer
    /\ UNCHANGED <<cfg, doc, meta, doc_header, todo, chunks, members,
                   current_chunk_paras, current_chunk_type, current_article,
                   current_paragraph_nums, lists, char_offset,
                   all_file_paths, call, ret>>

\* after the loop: "Write any remaining chunks"; a write that raises here
\* ends run with the exception
FinishRun ==
    /\ run.pc = "loop"
    /\ pc = "idle"
    /\ run.idx = Len(all_file_paths)
    /\ LET nb == Len(BatchesOf(run.all_chunks, run.chunk_batch_size))
       IN  \E n \in 0..nb :
              /\ writer' = write_chunks(writer, run.all_chunks, run.chunk_batch_size, n)
              /\ run' = IF n = nb
                        THEN [run EXCEPT
                                !.pc = "finished",
                                !.written_files = @ \o written_names(writer, nb),
                                !.total_chunks_written = @ + Len(run.all_chunks),
                                !.all_chunks = <<>>]
                        ELSE [run EXCEPT !.pc = "aborted", !.write_failed = TRUE]
    /\ UNCHANGED <<cfg, pc, doc, meta, doc_header, todo, chunks, members,
                   current_chunk_paras, current_chunk_type, current_article,
                   current_paragraph_nums, lists, char_offset,
                   all_file_paths, call, ret>>

NextPipeline ==
    \/ LoadFails
    \/ LoadDocument
    \/ AppendParagraph
    \/ SplitAndAppend
    \/ FinalMerge
    \/ FinalEmit
    \/ ChunkingRaises
    \/ ChunkingReturns
    \/ FinishRun

SpecPipeline == InitPipeline /\ [][NextPipeline]_vars

\* ------------------------------------------------------------------------
\* The pure helpers, each called once on arguments of its own
\* ------------------------------------------------------------------------

\* the variables of the chunker, which a helper call leaves alone
chunker_vars == <<cfg, pc, doc, meta, doc_header, todo, chunks, members,
                  current_chunk_paras, current_chunk_type, current_article,
                  current_paragraph_nums, lists, char_offset>>

\* a call of the helper fn: its text, its second argument where it is a text
\* (aux) or a number (n)
CallOf(fn, text, aux, n) == [fn |-> fn, text |-> text, aux |-> aux, n |-> n, returned |-> FALSE]

\* c * n
Repeat(c, n) == [i \in 1..n |-> c]

\* texts for count_tokens: paragraphs, the empty text, texts around the
\* length limit, and texts holding a special token or nearly one
TokenTexts ==
    ParaPool
    \cup {<<>>}
    \cup {Repeat("a", n) : n \in {LongTextLimit - 1, LongTextLimit, LongTextLimit + 1}}
    \cup {pre \o w \o post : w \in SpecialTokens, pre \in {<<>>, <<"a">>},
                             post \in {<<>>, <<" ", "b">>}}
    \cup {Repeat("a", LongTextLimit) \o w : w \in SpecialTokens}
    \cup {<<"<", "|", "e", "n", "d", "o", "f", "t", "e", "x", "t", "|">>,
          <<"a", "<", "b", "|", ">">>}

CountTokensCalls == {CallOf("count_tokens", t, <<>>, 0) : t \in TokenTexts}

\* texts and file names for extract_year: several years in either order,
\* digit runs that are no standalone year, years out of range, none at all
YearTexts ==
    { <<"R", "e", "g", "u", "l", "a", "t", "i", "o", "n", " ", "(", "E", "U", ")", " ", "2", "0", "1", "6", "/", "6", "7", "9", " ", "a", "m", "e", "n", "d", "i", "n", "g", " ", "D", "i", "r", "e", "c", "t", "i", "v", "e", " ", "9", "5", "/", "4", "6", "/", "E", "C", " ", "o", "f", " ", "1", "9", "9", "5">>,
      <<"I", "n", " ", "1", "9", "9", "5", " ", "a", "n", "d", " ", "2", "0", "1", "6", ".">>,
      <<"2", "0", "9", "9", " ", "t", "h", "e", "n", " ", "1", "9", "0", "0">>,
      <<"o", "f", " ", "2", "0", "1", "6">>,
      <<"x", "2", "0", "1", "6", " ", "y">>,
      <<"1", "2", "0", "1", "6">>,
      <<"2", "0", "1", "6", "1", " ", "1", "8", "9", "9", " ", "2", "1", "0", "0">>,
      <<>>,
      <<"1", "9", "9", "9", ",", " ", "2", "0", "0", "0", ";", " ", "1", "9", "9", "8">>,
      <<"n", "o", " ", "y", "e", "a", "r">>,
      <<"2", "0", "1", "6", "_", "1", " ", "a", "n", "d", " ", "1", "9", "0", "1">>,
      <<"(", "2", "0", "0", "3", ")">> }

YearFilenames ==
    { <<"4", "4", "4", "_", "2", "0", "1", "7", ".", "j", "s", "o", "n">>,
      <<"1", "9", "9", "9", " ", "2", "0", "1", "8", ".", "j", "s", "o", "n">>,
      <<>> }

ExtractYearCalls ==
    {CallOf("extract_year", t, f, 0) : t \in YearTexts, f \in YearFilenames \cup {N_Plain, N_Year}}

\* first paragraphs for extract_regulation_name: one for each rule, and
\* texts that satisfy several rules at once
RegulationNameTexts ==
    { <<"A", "c", "t", " ", "o", "n", " ", "C", "o", "u", "n", "c", "i", "l", " ", "R", "e", "g", "u", "l", "a", "t", "i", "o", "n", " ", "(", "E", "U", ")", " ", "1", "/", "2", "0", "0", "0">>,
      <<"C", "o", "m", "m", "i", "s", "s", "i", "o", "n", " ", "R", "e", "g", "u", "l", "a", "t", "i", "o", "n", " ", "(", "E", "U", ")", " ", "2", "0", "1", "6", "/", "6", "7", "9", " ", "o", "f", " ", "2", "7", " ", "A", "p", "r", "i", "l">>,
      <<"1", "(", "7", ")", "\n", "T", "r", "a", "n", "s", "l", "a", "t", "i", "o", "n", " ", "f", "r", "o", "m", " ", "F", "i", "n", "n", "i", "s", "h", "\n", "A", "c", "t", " ", "o", "n", " ", "C", "r", "e", "d", "i", "t", " ", "I", "n", "s", "t", "i", "t", "u", "t", "i", "o", "n", "s", " ", "(", "6", "1", "0", "/", "2", "0", "1", "4", ")">>,
      <<"L", "a", "k", "i", " ", "(", "1", "2", "/", "2", "0", "0", "3", ")", " ", "o", "n", " ", "t", "h", "i", "n", "g", "s">>,
      <<"B", "a", "s", "e", "l", " ", "I", "I", "I", " ", "F", "r", "a", "m", "e", "w", "o", "r", "k">>,
      <<"C", "E", "L", "E", "X", ":", "3", "2", "0", "1", "6", "R", "0", "6", "7", "9">>,
      <<"L", "a", "k", "i", " ", "C", "o", "u", "n", "c", "i", "l", " ", "D", "e", "c", "i", "s", "i", "o", "n", " ", "(", "E", "C", ")", " ", "N", "o", " ", "1", "2", "/", "1", "9", "9", "9">>,
      <<"A", " ", "f", "i", "r", "s", "t", " ", "l", "i", "n", "e", " ", "o", "f", " ", "s", "o", "m", "e", " ", "l", "e", "n", "g", "t", "h", ".">>,
      <<"S", "h", "o", "r", "t">>,
      <<"A", "c", "t", " ", "o", "n", " ", "I", "F", "R", "S">> }

SourceTypes == {"eu_legislation", "national_law", "international_standard"}

ExtractRegulationNameCalls ==
    {CallOf("extract_regulation_name", t, st, 0) : t \in RegulationNameTexts, st \in SourceTypes}

\* paragraphs for detect_boundary: markers of every kind, in either case,
\* some of them matching several of the patterns
BoundaryTexts ==
    { <<"C", "h", "a", "p", "t", "e", "r", " ", "1">>,
      <<"L", "u", "k", "u", " ", "2", " ", "Y", "l", "e", "i", "s", "t", "ä">>,
      <<"S", "e", "c", "t", "i", "o", "n", " ", "3">>,
      <<"s", "e", "c", "t", "i", "o", "n", " ", "2">>,
      <<"P", "a", "r", "t", " ", "I", "V">>,
      <<"A", "n", "n", "e", "x", " ", "1">>,
      <<"c", "h", "a", "p", "t", "e", "r", " ", "9">>,
      <<"A", "r", "t", "i", "c", "l", "e", " ", "1", "2", " ", "S", "c", "o", "p", "e">>,
      <<"(", "3", ")", " ", "W", "h", "e", "r", "e", "a", "s">>,
      <<>>,
      <<"A", "r", "t", "i", "c", "l", "e">>,
      <<"1", "2", " ", "§", " ", "S", "c", "o", "p", "e">>,
      <<"C", "h", "a", "p", "t", "e", "r">>,
      <<"A", "n", "n", "e", "x", " ", "A">> }

DetectBoundaryCalls == {CallOf("detect_boundary", t, <<>>, 0) : t \in ParaPool \cup BoundaryTexts}

\* texts for split_at_sentences: one sentence, several short ones, sentences
\* longer than the limit, every kind of separator, sentences the encoder
\* raises on
SplitTexts ==
    { <<"A", "b", "c", ".", " ", "D", "e", "f", ".">>,
      <<"A", "b", "c", "d", " ", "<", "|", "e", "n", "d", "o", "f", "t", "e", "x", "t", "|", ">", ".", " ", "A", "b", "c", "d", " ", "<", "|", "e", "n", "d", "o", "f", "t", "e", "x", "t", "|", ">", ".">>,
      <<"O", "n", "e", " ", "s", "e", "n", "t", "e", "n", "c", "e", " ", "o", "n", "l", "y">>,
      <<"A", "a", ".", " ", "B", "b", ".", " ", "C", "c", ".", " ", "D", "d", ".", " ", "E", "e", ".">>,
      <<"A", " ", "v", "e", "r", "y", " ", "l", "o", "n", "g", " ", "s", "e", "n", "t", "e", "n", "c", "e", " ", "h", "e", "r", "e", ".", " ", "A", "b", ".">>,
      <<"1", ")", " ", "I", "t", "e", "m", " ", "o", "n", "e", ";", " ", "T", "w", "o", " ", "2", ")", " ", "T", "h", "r", "e", "e">>,
      <<"A", "b", ".", "\n", "\n", "c", "d", ".", " ", " ", "\n", " ", "E", "f", "!">>,
      <<"A", "b", "c", "d", "e", "f", "g", ".", " ", "H", "i", "j", "k", "l", "m", "n", ".", " ", "O", "p", "q", "r", "s", "t", "u", ".">> }

SplitAtSentencesCalls ==
    {CallOf("split_at_sentences", t, <<>>, n) : t \in SplitTexts \cup {P_Long}, n \in {1, 2, 3, 8}}

\* paragraph lists and targets for calculate_overlap: paragraphs that end a
\* sentence and one that does not, in every order; targets below, at and
\* above zero
OverlapParagraphs ==
    UNION {[1..n -> {P_Text, P_Open, P_Article7}] : n \in 0..MaxParas}

OverlapTargets == {-1, 0, 1, 2, 4}

\* the calls whose first argument is a list of paragraphs
CalculateOverlapCalls ==
    {CallOf("calculate_overlap", ps, <<>>, n) : ps \in OverlapParagraphs, n \in OverlapTargets}

\* texts for ends_at_sentence_boundary: paragraphs that stop in the middle of
\* a sentence after a word or a dash, list markers, a citation, a reference,
\* a heading, besides the paragraphs of the documents and the empty text
SentenceEndTexts ==
    { <<"t", "h", "e", " ", "c", "o", "m", "p", "e", "t", "e", "n", "t", " ", "a", "u", "t", "h", "o", "r", "i", "t", "y", " ", "s", "h", "a", "l", "l">>,
      <<"s", "h", "a", "l", "l", " ", " ">>,
      <<"p", "a", "y", "a", "b", "l", "e", " ", "t", "o", " ", "-">>,
      <<"(", "a", ")">>,
      <<"a", ")">>,
      <<"s", "e", "e", " ", "R", "e", "g", "u", "l", "a", "t", "i", "o", "n", " ", "2", "0", "1", "6", "/", "8", "6", "9">>,
      <<"i", "n", " ", "A", "r", "t", "i", "c", "l", "e", " ", "5">>,
      <<"a", "s", " ", "f", "o", "l", "l", "o", "w", "s", ":">> }

EndsAtSentenceBoundaryCalls ==
    {CallOf("ends_at_sentence_boundary", t, <<>>, 0) :
        t \in SentenceEndTexts \cup ParaPool \cup {<<>>}}

Calls ==
    CountTokensCalls \cup ExtractYearCalls \cup ExtractRegulationNameCalls
    \cup DetectBoundaryCalls \cup SplitAtSentencesCalls \cup EndsAtSentenceBoundaryCalls

InitCalls ==
    /\ Constructed({c \in Configs : c.merge_orphans /\ c.enable_overlap /\ c.keep_related_articles})
    /\ all_file_paths = <<>>
    /\ run = [pc |-> "none"]
    /\ writer = [file_counter |-> 0, files |-> <<>>]
    /\ (call \in Calls \/ call \in CalculateOverlapCalls)
    /\ ret = <<>>

\* the call of fn returns value
Returns(fn, value) ==
    /\ call.fn = fn
    /\ ~call.returned
    /\ ret' = value
    /\ call' = [call EXCEPT !.returned = TRUE]
    /\ UNCHANGED <<chunker_vars, all_file_paths, run, writer>>

ReturnCountTokens == Returns("count_tokens", count_tokens(call.text))

ReturnExtractYear == Returns("extract_year", extract_year(call.text, call.aux))

ReturnExtractRegulationName ==
    Returns("extract_regulation_name", extract_regulation_name(call.text, call.aux))

ReturnDetectBoundary == Returns("detect_boundary", detect_boundary(call.text))

ReturnSplitAtSentences ==
    Returns("split_at_sentences", split_at_sentences(call.text, call.n))

ReturnCalculateOverlap ==
    Returns("calculate_overlap", calculate_overlap(call.text, call.n))

ReturnEndsAtSentenceBoundary ==
    Returns("ends_at_sentence_boundary", ends_at_sentence_boundary(call.text))

NextCalls ==
    \/ ReturnCountTokens
    \/ ReturnExtractYear
    \/ ReturnExtractRegulationName
    \/ ReturnDetectBoundary
    \/ ReturnSplitAtSentences
    \/ ReturnCalculateOverlap
    \/ ReturnEndsAtSentenceBoundary

SpecCalls == InitCalls /\ [][NextCalls]_vars

\* ------------------------------------------------------------------------
\* extract_paragraphs: the reconstruction helpers
\* ------------------------------------------------------------------------

\* extract_paragraphs: [full_text[s:e] for (s, e) in paragraph_indices]
extract_paragraphs(chunk) ==
    [k \in 1..Len(chunk.paragraph_indices) |->
        Slice(chunk.full_text, chunk.paragraph_indices[k][1], chunk.paragraph_indices[k][2])]

\* verify_reconstruction
verify_reconstruction(chunk) ==
    JoinWith(NL, extract_paragraphs(chunk)) = chunk.full_text

\* ------------------------------------------------------------------------
\* Properties
\* ------------------------------------------------------------------------

RECURSIVE Flatten(_)
\* the concatenation of a sequence of sequences
Flatten(ss) == IF ss = <<>> THEN <<>> ELSE ss[1] \o Flatten(Tail(ss))

\* the length of the header prefix of the chunk at position i of chunks
HeaderLenOf(i) == IF i = 1 /\ doc_header # <<>> THEN Len(doc_header) + 2 ELSE 0

\* chunk_document has returned and its final buffer was merged into the last chunk
Merged ==
    /\ pc = "done"
    /\ chunks # <<>>
    /\ members[Len(members)] # current_chunk_paras

\* no paragraph of the document is split as oversized
NoOversized ==
    \A k \in 1..Len(doc.paragraphs) :
        count_tokens(doc.paragraphs[k]) <= cfg.max_paragraph_tokens

\* C1: every chunk has one index pair per constituent paragraph, in order,
\* full_text[s:e] is that paragraph, and the slices joined by newline are
\* full_text without the header prefix (header and two newlines)
C1_Reconstruction ==
    \A i \in 1..Len(chunks) :
        /\ extract_paragraphs(chunks[i]) = members[i]
        /\ JoinWith(NL, extract_paragraphs(chunks[i]))
              = SubSeq(chunks[i].full_text, HeaderLenOf(i) + 1, Len(chunks[i].full_text))

\* C1 witness: a header-prefixed first chunk that absorbed an orphan merge
C1_Witness == Merged /\ Len(chunks) = 1 /\ doc_header # <<>>

\* C2 as claimed: verify_reconstruction is True for every chunk of chunk_document
C2_Original == \A i \in 1..Len(chunks) : verify_reconstruction(chunks[i])

\* C3 as claimed: when no sub-paragraph exceeds max_chunk_tokens, every chunk
\* has token_count <= max_chunk_tokens * 1.2
C3_Original ==
    (\A k \in 1..Len(members) : \A j \in 1..Len(members[k]) :
        count_tokens(members[k][j]) <= cfg.max_chunk_tokens)
    => \A i \in 1..Len(chunks) : 10 * chunks[i].token_count <= 12 * cfg.max_chunk_tokens

\* C4 as claimed: under any configuration the constituent paragraphs of the
\* returned chunks, concatenated, are DocumentInfo.paragraphs
C4_Original == pc = "done" => Flatten(members) = doc.paragraphs

\* C4 amended: with overlap disabled and no paragraph split as oversized, the
\* constituent paragraphs of the returned chunks, concatenated in chunk and
\* paragraph order, are DocumentInfo.paragraphs
C4_NoLoss ==
    (pc = "done" /\ ~cfg.enable_overlap /\ NoOversized)
    => Flatten(members) = doc.paragraphs

\* C4 witness: a run without overlap that split, merged an orphan and returned
C4_Witness ==
    /\ Merged
    /\ ~cfg.enable_overlap
    /\ NoOversized
    /\ Len(chunks) >= 2
    /\ Len(doc.paragraphs) = 3

\* a classification that overwrites the running chunk type or article number
Overwrites(b) == b.type \in {"recital", "section"} \/ (b.type = "article" /\ b.num # None)

\* the number of paragraphs the chunk at position i held when it was emitted
OwnLen(i) ==
    IF Merged /\ i = Len(chunks)
    THEN Len(members[i]) - Len(current_chunk_paras)
    ELSE Len(members[i])

\* C5 as claimed: the chunk that contains an article paragraph with number n
\* has chunk_type "article" and article_number n, whatever follows in the chunk
C5_Original ==
    \A i \in 1..Len(chunks) : \A k \in 1..Len(members[i]) :
        LET b == detect_boundary(members[i][k])
        IN  (b.type = "article" /\ b.num # None)
            => (chunks[i].chunk_type = "article" /\ chunks[i].article_number = b.num)

\* C5 amended: with overlap disabled, a chunk emitted holding an article
\* paragraph with number n after which it holds no recital, section or
\* numbered article paragraph has chunk_type "article" and article_number n
C5_LastBoundary ==
    ~cfg.enable_overlap
    => \A i \in 1..Len(chunks) : \A k \in 1..OwnLen(i) :
          LET b == detect_boundary(members[i][k])
          IN  (/\ b.type = "article"
               /\ b.num # None
               /\ \A j \in (k + 1)..OwnLen(i) : ~Overwrites(detect_boundary(members[i][j])))
              => (chunks[i].chunk_type = "article" /\ chunks[i].article_number = b.num)

\* C5 witness: a chunk emitted with an article paragraph followed by a plain one
C5_Witness ==
    /\ ~cfg.enable_overlap
    /\ \E i \in 1..Len(chunks) :
          /\ OwnLen(i) >= 2
          /\ detect_boundary(members[i][1]).type = "article"
          /\ detect_boundary(members[i][2]).type = "paragraph"
          /\ chunks[i].article_number = <<"7">>

C7_Finalization ==
    [][(pc = "loop" /\ pc' = "done" /\ current_chunk_paras # <<>>) =>
        LET remainder == JoinWith(NL, current_chunk_paras)
            n == Len(chunks)
            merged == chunks[n].full_text \o NL \o remainder
            mergeCase == /\ cfg.merge_orphans
                         /\ n > 0
                         /\ count_tokens(remainder) < cfg.orphan_threshold
                         /\ 10 * count_tokens(merged) <= 12 * cfg.max_chunk_tokens
        IN  IF mergeCase
            THEN /\ Len(chunks') = n
                 /\ chunks'[n].full_text = merged
                 /\ chunks'[n].token_count = count_tokens(merged)
                 /\ members'[n] = members[n] \o current_chunk_paras
                 /\ \A i \in 1..(n - 1) : chunks'[i] = chunks[i]
            ELSE /\ Len(chunks') = n + 1
                 /\ SubSeq(chunks', 1, n) = chunks
                 /\ members'[n + 1] = current_chunk_paras]_vars

\* C7 witness: a small final buffer kept apart because the merge would pass the limit
C7_Witness ==
    /\ pc = "done"
    /\ ~Merged
    /\ cfg.merge_orphans
    /\ Len(chunks) >= 2
    /\ count_tokens(JoinWith(NL, current_chunk_paras)) < cfg.orphan_threshold

\* C8: the chunks carry chunk_id 0, 1, ..., N-1 in list order, also after an
\* orphan merge
C8_SequentialIds == \A i \in 1..Len(chunks) : chunks[i].chunk_id = i - 1

\* C8 witness: two chunks returned, an orphan merged into the second
C8_Witness == Merged /\ Len(chunks) = 2 /\ chunks[2].chunk_id = 1

\* the offset in the document's full_text at which the paragraphs of the
\* chunk at position i begin, when the chunks partition the paragraphs
DocOffsetOf(i) ==
    LET before == Flatten(SubSeq(members, 1, i - 1))
    IN  IF before = <<>> THEN 0 ELSE Len(JoinWith(NL, before)) + 1

\* C9 as claimed: without overlap and oversized splitting, char_start is where
\* the chunk's first paragraph begins in the document's full_text and
\* full_text[char_start:char_end] of the document is the chunk's paragraphs
C9_Original ==
    (~cfg.enable_overlap /\ NoOversized)
    => \A i \in 1..Len(chunks) :
          /\ chunks[i].char_start = DocOffsetOf(i)
          /\ Slice(doc.full_text, chunks[i].char_start, chunks[i].char_end)
                = JoinWith(NL, members[i])

\* C10 as claimed: while later paragraphs are processed no field of a chunk
\* already in the output list changes
C10_Original ==
    [][(pc = "loop" /\ pc' = "loop") =>
        \A i \in 1..Len(chunks) :
            ChunkView(chunks'[i], lists') = ChunkView(chunks[i], lists)]_vars

\* the chunks in the files the writer has written, in the order written
WrittenChunks == Flatten([k \in 1..Len(writer.files) |-> writer.files[k].chunks])

\* the chunks of the documents whose chunk_document call returned, in file order
ReturnedChunks == Flatten([k \in 1..Len(run.outcomes) |-> run.outcomes[k].chunks])

\* C11: in run, whatever files fail to load, hold no paragraph or raise while
\* being chunked, every file is visited (one outcome per file, in order), the
\* run reaches its end, and as long as no write to disk raises the chunks
\* written and waiting to be written are exactly the chunks of the documents
\* whose chunk_document call returned; at the end all of those are written
C11_FailuresAreScoped ==
    (run.pc # "none" /\ ~run.write_failed)
    => /\ run.pc \in {"loop", "finished"}
       /\ Len(run.outcomes) = run.idx
       /\ run.idx <= Len(all_file_paths)
       /\ \A k \in 1..Len(run.outcomes) :
             /\ run.outcomes[k].status = "load_failed" <=> load_fails(all_file_paths[k])
             /\ run.outcomes[k].status # "chunked" => run.outcomes[k].chunks = <<>>
       /\ WrittenChunks \o run.all_chunks = ReturnedChunks
       /\ run.pc = "finished"
          => /\ run.idx = Len(all_file_paths)
             /\ WrittenChunks = ReturnedChunks
             /\ run.total_chunks_written = Len(ReturnedChunks)

\* C11 witness: a finished run over three files, one that failed to load, one
\* whose chunking raised after a chunk was already in its list, and one whose
\* chunks were written
C11_Witness ==
    /\ run.pc = "finished"
    /\ ~run.write_failed
    /\ Len(all_file_paths) = 3
    /\ \E k \in 1..3 : run.outcomes[k].status = "load_failed"
    /\ \E k \in 1..3 : run.outcomes[k].status = "chunk_error"
    /\ \E k \in 1..3 : run.outcomes[k].status = "chunked" /\ run.outcomes[k].chunks # <<>>
    /\ WrittenChunks # <<>>

\* C12: count_tokens returns for every text and never raises: len(text) // 4
\* for a text of more than 50,000 characters and for a text the encoder
\* raises on, the encoder's count for any other; the chunker, the run and the
\* writer are as they were before the call
C12_CountTokens ==
    (call.fn = "count_tokens" /\ call.returned)
    => /\ Len(call.text) > 50000 => ret = Len(call.text) \div 4
       /\ EncodeRaises(call.text) => ret = Len(call.text) \div 4
       /\ (Len(call.text) <= 50000 /\ ~EncodeRaises(call.text)) => ret = EncodeLen(call.text)
       /\ pc = "idle" /\ chunks = <<>> /\ current_chunk_paras = <<>> /\ char_offset = 0
       /\ writer.files = <<>> /\ run.pc = "none"

\* C12 witness: count_tokens has returned the estimate for a short text the
\* encoder raises on, one less than the count of a text of that length
C12_Witness ==
    /\ call.fn = "count_tokens"
    /\ call.returned
    /\ Len(call.text) <= 50000
    /\ EncodeRaises(call.text)
    /\ ret = Len(call.text) \div 4
    /\ ret # EncodeLen(call.text)

\* the standalone 4-digit years 1900..2099 of text: four digits beginning 19
\* or 20 with no letter, digit or underscore on either side
StandaloneYears(text) ==
    { StrToInt(SubSeq(text, i, i + 3)) :
        i \in { j \in 1..(Len(text) - 3) :
                  /\ \A k \in j..(j + 3) : IsDigit(text[k])
                  /\ StrToInt(SubSeq(text, j, j + 1)) \in {19, 20}
                  /\ (j = 1 \/ ~IsWordChar(text[j - 1]))
                  /\ (j + 3 = Len(text) \/ ~IsWordChar(text[j + 4])) } }

\* C13: for a text with at least one standalone year in 1900..2099,
\* extract_year returns the greatest of the years in the text, whatever the
\* file name is
C13_MaxYear ==
    (call.fn = "extract_year" /\ call.returned /\ StandaloneYears(call.text) # {})
    => /\ ret \in StandaloneYears(call.text)
       /\ \A y \in StandaloneYears(call.text) : y <= ret

\* C13 witness: extract_year returned 2016 for a text whose first year is
\* 1995, called with a file name that holds the year 2017
C13_Witness ==
    /\ call.fn = "extract_year"
    /\ call.returned
    /\ StandaloneYears(call.text) = {1995, 2016}
    /\ YearAt(call.text, 4)
    /\ SubSeq(call.text, 4, 7) = <<"1", "9", "9", "5">>
    /\ call.aux = N_Year
    /\ ret = 2016

\* the results of the rules of extract_regulation_name on a first paragraph,
\* in the order (a) EU pattern, (b) national-law line scan, (c) Finnish Act
\* pattern, (d) standard pattern, (e) CELEX pattern, (f) first substantial
\* line; None for a rule that does not succeed
RuleResults(first_paragraph, source_type) ==
    LET search_text == Take(first_paragraph, 800)
    IN  << REGULATION_PATTERN(search_text),
           IF source_type = "national_law"
           THEN NationalLawScan(SplitLines(search_text), 1) ELSE None,
           FINNISH_ACT_PATTERN(search_text),
           STANDARD_PATTERN(search_text),
           IF CELEX_PATTERN(search_text) # None
           THEN <<"C", "E", "L", "E", "X", " ">> \o CELEX_PATTERN(search_text) ELSE None,
           SubstantialLine(SplitLines(first_paragraph), 1) >>

\* C14 as claimed: extract_regulation_name returns the result of the first
\* rule that succeeds in the order (a) EU pattern, (b) national-law scan,
\* (c) Finnish Act pattern, (d) standard pattern, (e) CELEX pattern, (f) first
\* substantial line, so that a national_law text satisfying (a) and (b) gets
\* the EU pattern match
C14_Original ==
    (call.fn = "extract_regulation_name" /\ call.returned)
    => LET results == RuleResults(call.text, call.aux)
           succeed == {k \in 1..6 : results[k] # None}
       IN  succeed # {} => ret = results[CHOOSE m \in succeed : \A k \in succeed : m <= k]

\* which of the rules of detect_boundary match a paragraph, in the order
\* Finnish chapter, Finnish section, EU article, recital, framework marker,
\* generic section, default
BoundaryRuleMatches(paragraph) ==
    << finnish_chapter_pattern(paragraph), finnish_section_pattern(paragraph),
       article_pattern(paragraph), recital_pattern(paragraph),
       framework_section_pattern(paragraph), section_pattern(paragraph), TRUE >>

\* the classification each of those rules produces
BoundaryRuleTypes ==
    <<"chapter", "section", "article", "recital", "section", "section", "paragraph">>

\* the earliest rule that matches a paragraph
FirstBoundaryRule(paragraph) ==
    CHOOSE m \in 1..7 :
        /\ BoundaryRuleMatches(paragraph)[m]
        /\ \A k \in 1..(m - 1) : ~BoundaryRuleMatches(paragraph)[k]

\* C15: detect_boundary returns one classification, that of the earliest
\* matching rule in the order Finnish chapter, Finnish section, EU article,
\* recital, framework marker, generic section, default "paragraph": its type
\* is that rule's, a section number comes only from the Finnish section
\* rule, an article number only from the article rule, paragraph numbers
\* only from the recital rule
C15_FirstRule ==
    (call.fn = "detect_boundary" /\ call.returned)
    => LET first == FirstBoundaryRule(call.text)
       IN  /\ ret.type = BoundaryRuleTypes[first]
           /\ first = 2 => ret.num = FirstDigitRun(call.text) \o <<" ", "§">>
           /\ first = 3 => ret.num = ArticleNumberOf(call.text)
           /\ first \notin {2, 3} => ret.num = None
           /\ first = 4 => ret.nums = <<RecitalNumberOf(call.text)>>
           /\ first # 4 => ret.nums = <<>>

\* C15 witness: a paragraph that matches the Finnish chapter rule and the
\* framework marker rule was classified "chapter"
C15_Witness ==
    /\ call.fn = "detect_boundary"
    /\ call.returned
    /\ BoundaryRuleMatches(call.text)[1]
    /\ BoundaryRuleMatches(call.text)[5]
    /\ ret.type = "chapter"

\* the non-empty sentences of a text, stripped, in order
SentencesOf(text) ==
    LET pieces == SentenceSplit(text, 1, 1, <<>>)
        stripped == [k \in 1..Len(pieces) |-> Strip(pieces[k])]
    IN  SelectSeq(stripped, LAMBDA x : x # <<>>)

ChunksOfFile(k) == [i \in 1..Len(run.outcomes[k].chunks) |-> run.outcomes[k].chunks[i].chunk]

\* C17: chunking is document-scoped: two calls of chunk_document on the same
\* document by the same chunker return the same list of chunks, whatever
\* documents were chunked, or failed, before each of them
C17_DocumentScoped ==
    run.pc # "none"
    => \A j, k \in 1..Len(run.outcomes) :
          (/\ all_file_paths[j] = all_file_paths[k]
           /\ run.outcomes[j].status = "chunked"
           /\ run.outcomes[k].status = "chunked")
          => ChunksOfFile(j) = ChunksOfFile(k)

\* C17 witness: the same document chunked first and third, a document with an
\* article chunked in between, the same chunks both times
C17_Witness ==
    /\ run.pc = "finished"
    /\ Len(all_file_paths) = 3
    /\ all_file_paths = <<F_Section, F_Article, F_Section>>
    /\ \A k \in 1..3 : run.outcomes[k].status = "chunked"
    /\ ChunksOfFile(2)[1].article_number # None
    /\ ChunksOfFile(1) # <<>>
    /\ ChunksOfFile(1) = ChunksOfFile(3)

\* the offset at which paragraph k of the chunk at position i of chunks is
\* laid out when the layout begins at offset first
LaidOutAt(i, k, first) ==
    IF k = 1 THEN first
    ELSE first + Len(JoinWith(NL, SubSeq(members[i], 1, k - 1))) + 1

\* C18: the header is in exactly one chunk, the one with chunk_id 0: with a
\* non-empty header its full_text is header, two newlines, its paragraphs,
\* and its paragraph indices are laid out from len(header) + 2; every later
\* chunk is its paragraphs alone with indices laid out from 0; this is so
\* also after an orphan was merged into chunk 0
C18_HeaderOnce ==
    \A i \in 1..Len(chunks) :
        LET first == IF i = 1 /\ doc_header # <<>> THEN Len(doc_header) + 2 ELSE 0
        IN  /\ chunks[i].chunk_id = 0 <=> i = 1
            /\ chunks[i].full_text =
                  (IF i = 1 /\ doc_header # <<>> THEN doc_header \o NL \o NL ELSE <<>>)
                  \o JoinWith(NL, members[i])
            /\ Len(chunks[i].paragraph_indices) = Len(members[i])
            /\ \A k \in 1..Len(members[i]) :
                  chunks[i].paragraph_indices[k] =
                      <<LaidOutAt(i, k, first), LaidOutAt(i, k, first) + Len(members[i][k])>>

\* C18 witness: chunk_document returned one chunk, chunk 0 with the header,
\* into which the final buffer was merged as an orphan
C18_Witness ==
    /\ Merged
    /\ Len(chunks) = 1
    /\ doc_header # <<>>
    /\ Len(members[1]) >= 2
    /\ chunks[1].paragraph_indices[1][1] = Len(doc_header) + 2
    /\ SubSeq(chunks[1].full_text, 1, Len(doc_header)) = doc_header

\* the loop body is about to process a sub-paragraph with a non-empty buffer
AtIncoming == pc = "loop" /\ todo # <<>> /\ current_chunk_paras # <<>>

\* the tokens of the buffer and of the incoming sub-paragraph, as the loop
\* body counts them
BufferTokens == count_tokens(JoinWith(NL, current_chunk_paras))
IncomingTokens == count_tokens(Head(todo).sub_para)

\* the cohesion override applies to the buffer and the incoming sub-paragraph
OverrideHolds ==
    /\ cfg.keep_related_articles
    /\ should_keep_together(current_chunk_paras, Head(todo).sub_para, current_article)

\* the step appends the incoming sub-paragraph to the buffer without a split
AppendedWithoutSplit ==
    /\ chunks' = chunks
    /\ current_chunk_paras' = Append(current_chunk_paras, Head(todo).sub_para)

\* the step emits the buffer as a chunk and then takes the incoming sub-paragraph
BufferEmittedFirst ==
    /\ Len(chunks') = Len(chunks) + 1
    /\ members' = Append(members, current_chunk_paras)
    /\ current_chunk_paras'[Len(current_chunk_paras')] = Head(todo).sub_para

\* C19: with keep_related_articles on and a non-empty buffer for which
\* should_keep_together holds with the incoming sub-paragraph, the step
\* appends without a split when buffer + incoming tokens are at most
\* 1.2 * max_chunk_tokens, whatever the type of the incoming paragraph and
\* even above max_chunk_tokens, and splits when they are more
C19_CohesionFirst ==
    [][(AtIncoming /\ OverrideHolds)
       => /\ 10 * (BufferTokens + IncomingTokens) <= 12 * cfg.max_chunk_tokens
             => AppendedWithoutSplit
          /\ 10 * (BufferTokens + IncomingTokens) > 12 * cfg.max_chunk_tokens
             => BufferEmittedFirst]_vars

\* C19 witness: an article referring to the running article number was
\* appended to a buffer of min_chunk_tokens or more that ends a sentence, the
\* two together above max_chunk_tokens and within 1.2 times it
C19_Witness ==
    /\ pc = "loop"
    /\ cfg.keep_related_articles
    /\ chunks = <<>>
    /\ current_chunk_paras = <<P_Article7, P_Article7>>
    /\ should_keep_together(<<P_Article7>>, P_Article7, <<"7">>)
    /\ count_tokens(P_Article7) >= cfg.min_chunk_tokens
    /\ ends_at_sentence_boundary(P_Article7)
    /\ 2 * count_tokens(P_Article7) > cfg.max_chunk_tokens
    /\ 10 * 2 * count_tokens(P_Article7) <= 12 * cfg.max_chunk_tokens

\* the cohesion override keeps the incoming sub-paragraph in the buffer
OverrideKeeps ==
    OverrideHolds /\ 10 * (BufferTokens + IncomingTokens) <= 12 * cfg.max_chunk_tokens

\* C20 as claimed: whenever the buffer is non-empty, the cohesion override
\* does not keep the incoming sub-paragraph (keep_related_articles off
\* included) and buffer + incoming tokens exceed max_chunk_tokens, the step
\* emits the buffer as a chunk before it appends the incoming sub-paragraph,
\* whatever the paragraph's type and however the buffer ends
C20_Original ==
    [][(AtIncoming /\ ~OverrideKeeps /\ BufferTokens + IncomingTokens > cfg.max_chunk_tokens)
       => BufferEmittedFirst]_vars

\* ------------------------------------------------------------------------
\* The chunker with room between chunk_target_tokens and max_chunk_tokens
\* ------------------------------------------------------------------------
\* settings under which a buffer that reached the target can still take a
\* boundary paragraph without passing max_chunk_tokens
SoftProfiles ==
    { [chunk_target_tokens |-> 3, min_chunk_tokens |-> 2, max_chunk_tokens |-> 8,
       orphan_threshold |-> 3, overlap_tokens |-> 2, max_paragraph_tokens |-> 8] }

SoftConfigs == ConfigsOf(SoftProfiles)

SoftParaPool == {P_Article7, P_Recital5, P_Section3, P_Chapter1, P_Text, P_Open}

SoftDocs ==
    {DocumentInfoOf(ps, "eu_legislation", N_Plain) :
        ps \in UNION {[1..n -> SoftParaPool] : n \in 1..MaxParas}}

InitSoft == InitWith(SoftConfigs)

BeginSoft == chunk_document_begin(SoftDocs)

NextSoft ==
    \/ BeginSoft
    \/ AppendParagraph
    \/ SplitAndAppend
    \/ FinalMerge
    \/ FinalEmit

SpecSoft == InitSoft /\ [][NextSoft]_vars

\* the type detect_boundary gives the incoming paragraph
IncomingType == detect_boundary(Head(todo).para).type

\* none of the rules before the soft target decides the step: the cohesion
\* override does not apply, the incoming paragraph is not a major boundary
\* on a buffer of min_chunk_tokens, and the hard limit is not passed
NoEarlierRule ==
    /\ ~OverrideHolds
    /\ ~(major_boundary(IncomingType) /\ BufferTokens >= cfg.min_chunk_tokens)
    /\ BufferTokens + IncomingTokens <= cfg.max_chunk_tokens

\* C21 as claimed: when no earlier rule fires, the buffer holds
\* chunk_target_tokens or more and ends at a sentence boundary, and the
\* incoming paragraph is an article, recital, section or chapter boundary,
\* the step emits the buffer before it appends the incoming paragraph
C21_Original ==
    [][(/\ AtIncoming
        /\ NoEarlierRule
        /\ BufferTokens >= cfg.chunk_target_tokens
        /\ ends_at_sentence_boundary(current_chunk_paras[Len(current_chunk_paras)])
        /\ IncomingType \in {"article", "recital", "section", "chapter"})
       => BufferEmittedFirst]_vars

\* the iterations of the loops of chunk_document already carried out
Processed ==
    LET all == WorkList(doc.paragraphs, 1, cfg.max_paragraph_tokens)
    IN  SubSeq(all, 1, Len(all) - Len(todo))

\* the positions of items whose paragraph detect_boundary gives a structural type
BoundaryPositions(items) ==
    {k \in 1..Len(items) : detect_boundary(items[k].para).type # "paragraph"}

\* the type of the last structural boundary paragraph among items, "mixed" if none
LastBoundaryType(items) ==
    IF BoundaryPositions(items) = {} THEN "mixed"
    ELSE LET last == CHOOSE k \in BoundaryPositions(items) :
                        \A j \in BoundaryPositions(items) : j <= k
         IN  detect_boundary(items[last].para).type

\* C22 as claimed: a chunk is emitted with the type of the last structural
\* boundary paragraph (article, recital, section or chapter) processed before
\* it, and with "mixed" only if no boundary paragraph was processed
C22_Original ==
    [][(pc = "loop" /\ Len(chunks') = Len(chunks) + 1)
       => chunks'[Len(chunks')].chunk_type = LastBoundaryType(Processed)]_vars

\* a classification that carries a number for the running article number:
\* an article or a section whose number detect_boundary captured
Numbered(b) == b.type \in {"article", "section"} /\ b.num # None

\* C23 as claimed: a chunk emitted holding a section paragraph for which
\* detect_boundary captured "<n> §", with no numbered article or section
\* after it in the chunk, has article_number "<n> §"
C23_Original ==
    \A i \in 1..Len(chunks) : \A k \in 1..OwnLen(i) :
        LET b == detect_boundary(members[i][k])
        IN  (/\ b.type = "section"
             /\ b.num # None
             /\ \A j \in (k + 1)..OwnLen(i) : ~Numbered(detect_boundary(members[i][j])))
            => chunks[i].article_number = b.num

\* the call of fn has returned
Returned(fn) == call.fn = fn /\ call.returned

\* sub is a contiguous suffix of list, in the order of list
IsSuffix(sub, list) ==
    /\ Len(sub) <= Len(list)
    /\ sub = SubSeq(list, Len(list) - Len(sub) + 1, Len(list))

RECURSIVE TokenSum(_)
\* the tokens of the paragraphs, counted one by one as calculate_overlap does
TokenSum(paragraphs) ==
    IF paragraphs = <<>> THEN 0
    ELSE count_tokens(Head(paragraphs)) + TokenSum(Tail(paragraphs))

\* C24 as claimed: calculate_overlap returns a contiguous suffix of the
\* paragraph list, every paragraph of which ends at a sentence boundary, of
\* at most 1.5 * target tokens unless it is a single paragraph, and the empty
\* list when the target is not positive or the list is empty
C24_Original ==
    Returned("calculate_overlap")
    => /\ IsSuffix(ret, call.text)
       /\ \A k \in 1..Len(ret) : ends_at_sentence_boundary(ret[k])
       /\ Len(ret) <= 1 \/ 2 * TokenSum(ret) <= 3 * call.n
       /\ (call.n <= 0 \/ call.text = <<>>) => ret = <<>>

\* the last word of the text: what follows its last space
LastWord(t) ==
    LET spaces == {i \in 1..Len(t) : IsSpace(t[i])}
        start == IF spaces = {} THEN 1
                 ELSE 1 + CHOOSE i \in spaces : \A j \in spaces : j <= i
    IN  SubSeq(t, start, Len(t))

\* the text stops in the middle of a sentence: its last non-space characters
\* are a word of two letters or more, with no terminal punctuation, bracket
\* or digit
StopsMidSentence(text) ==
    /\ RStrip(text) # <<>>
    /\ LET w == LastWord(RStrip(text))
       IN  /\ Len(w) >= 2
           /\ \A i \in 1..Len(w) : LowerChar(w[i]) \in LowerSet

\* C25 as claimed: ends_at_sentence_boundary returns False for a paragraph
\* that stops mid-sentence after an ordinary word
C25_Original ==
    (Returned("ends_at_sentence_boundary") /\ StopsMidSentence(call.text)) => ret = FALSE

\* C26 as claimed: a value extract_year returns is a year in 1900..2099, one
\* of the years of the file name when the text holds no year and the file
\* name does, and None (0) when neither holds a year
C26_Original ==
    Returned("extract_year")
    => /\ ret # 0 => ret \in 1900..2099
       /\ (StandaloneYears(call.text) = {} /\ StandaloneYears(call.aux) # {})
          => ret \in StandaloneYears(call.aux)
       /\ (StandaloneYears(call.text) = {} /\ StandaloneYears(call.aux) = {})
          => ret = 0

\* the loop of run over the files has ended
EndOfLoop ==
    /\ run.pc \in {"loop", "finished", "aborted"}
    /\ pc = "idle"
    /\ run.idx = Len(all_file_paths)

\* C27 as claimed: at the end of the loop, whatever the load, chunk and
\* flush steps did, docs_processed + len(skipped_files) is the number of
\* files, errors is len(skipped_files), and no file has two entries in
\* skipped_files
C27_Original ==
    EndOfLoop
    => /\ run.docs_processed + Len(run.skipped_files) = Len(all_file_paths)
       /\ run.errors = Len(run.skipped_files)
       /\ \A i, j \in 1..Len(run.skipped_files) :
             run.skipped_files[i].file = run.skipped_files[j].file => i = j

\* the paragraphs the chunk at position i was seeded with from the chunk
\* before it: the overlap of that chunk's paragraphs, none for the first
\* chunk or without overlap
CarriedInto(i) ==
    IF i = 1 \/ ~cfg.enable_overlap THEN <<>>
    ELSE calculate_overlap(members[i - 1], cfg.overlap_tokens)

\* every chunk has a paragraph and an index pair for each of its paragraphs,
\* starts with what was carried over and holds a paragraph beyond that, and
\* there are no more chunks than sub-paragraphs processed
EveryChunkHasNewParagraph ==
    /\ \A i \in 1..Len(chunks) :
          /\ members[i] # <<>>
          /\ chunks[i].paragraph_indices # <<>>
          /\ Len(chunks[i].paragraph_indices) = Len(members[i])
          /\ Len(members[i]) > Len(CarriedInto(i))
          /\ SubSeq(members[i], 1, Len(CarriedInto(i))) = CarriedInto(i)
    /\ pc \in {"loop", "done"} => Len(chunks) <= Len(Processed)

\* an iteration of the loop body takes the incoming sub-paragraph off the
\* work list and appends it, once, to the buffer: the buffer as it was, or
\* after a split what is carried over from it
AppendedOnce ==
    (pc = "loop" /\ todo # <<>>)
    => /\ todo' = Tail(todo)
       /\ Len(chunks') \in {Len(chunks), Len(chunks) + 1}
       /\ current_chunk_paras' =
             (IF Len(chunks') = Len(chunks) THEN current_chunk_paras
              ELSE IF cfg.enable_overlap
              THEN calculate_overlap(current_chunk_paras, cfg.overlap_tokens)
              ELSE <<>>)
             \o <<Head(todo).sub_para>>

\* C28: every chunk of chunk_document has at least one paragraph, and a
\* paragraph that was not carried over as overlap; each sub-paragraph is
\* appended once as new content; there are at most as many chunks as
\* sub-paragraphs; and a call that has begun returns
C28_NewContent ==
    /\ []EveryChunkHasNewParagraph
    /\ [][AppendedOnce]_vars
    /\ (pc = "loop") ~> (pc = "done")

\* C28 witness: chunk_document returned, with overlap enabled, as many chunks
\* as the document has sub-paragraphs, the second and third of them seeded
\* with a paragraph carried over
C28_Witness ==
    /\ pc = "done"
    /\ cfg.enable_overlap
    /\ Len(chunks) = 3
    /\ Len(WorkList(doc.paragraphs, 1, cfg.max_paragraph_tokens)) = 3
    /\ CarriedInto(2) # <<>>
    /\ CarriedInto(3) # <<>>

RECURSIVE RecitalNumbersOf(_)
\* the recital numbers of the recital paragraphs among paras, in order
RecitalNumbersOf(paras) ==
    IF paras = <<>> THEN <<>>
    ELSE LET b == detect_boundary(Head(paras))
         IN  (IF b.type = "recital" THEN b.nums ELSE <<>>) \o RecitalNumbersOf(Tail(paras))

\* C29 as claimed: paragraph_numbers of every returned chunk is the recital
\* numbers of the recital paragraphs of that chunk, once each and in order,
\* and no two chunks share one paragraph_numbers list
C29_Original ==
    pc = "done"
    => /\ \A i \in 1..Len(chunks) :
             lists[chunks[i].paragraph_numbers] = RecitalNumbersOf(members[i])
       /\ \A i, j \in 1..Len(chunks) :
             chunks[i].paragraph_numbers = chunks[j].paragraph_numbers => i = j

\* a run in batch mode none of whose writes has raised
BatchedRun == run.pc # "none" /\ run.use_batches /\ ~run.write_failed

\* the chunks of the chunked documents are, in document order, those written
\* followed by those waiting for the next flush, total_chunks_written counts
\* the written ones, and all are written when the run has finished
WrittenOnceInOrder ==
    /\ WrittenChunks \o run.all_chunks = ReturnedChunks
    /\ run.total_chunks_written = Len(WrittenChunks)
    /\ run.pc = "finished"
       => /\ run.all_chunks = <<>>
          /\ run.total_chunks_written = Len(ReturnedChunks)

\* the files are named by the counter, no name twice, and hold between one
\* and batch_size chunks
FilesNamedByCounter ==
    /\ writer.file_counter = Len(writer.files)
    /\ \A k \in 1..Len(writer.files) :
          /\ writer.files[k].name = FileName(k - 1)
          /\ Len(writer.files[k].chunks) \in 1..run.chunk_batch_size
    /\ \A i, j \in 1..Len(writer.files) :
          writer.files[i].name = writer.files[j].name => i = j
    /\ run.written_files = [k \in 1..Len(writer.files) |-> writer.files[k].name]

\* C30: in a run with batch flushing whose writes succeed, every chunk of a
\* chunked document is written once, in document order, and
\* total_chunks_written is their number at the end; the file counter only
\* increases, files are only added, no file name is used twice and no file
\* holds more than batch_size chunks
C30_WrittenOnce ==
    [][BatchedRun'
       => /\ WrittenOnceInOrder'
          /\ FilesNamedByCounter'
          /\ writer'.file_counter >= writer.file_counter
          /\ SubSeq(writer'.files, 1, Len(writer.files)) = writer.files]_vars

\* C30 witness: a finished run that flushed after every document, two
\* documents chunked, with more than one call of write_chunks and a call
\* that wrote more than one file
C30_Witness ==
    /\ run.pc = "finished"
    /\ BatchedRun
    /\ run.write_batch_size = 1
    /\ run.chunk_batch_size = 1
    /\ run.docs_processed = 2
    /\ Len(writer.files) >= 4
    /\ Len(ReturnedChunks) = Len(writer.files)

====
